---------------------------- MODULE Spec2Model ----------------------------
(***************************************************************************)
(* A model of ninja-orval-forge: the syntax-tree analyzers for Django      *)
(* models and DRF serializers/viewsets, the field-type conversion of the   *)
(* code generator, and the generate command's use of the file system.      *)
(*                                                                         *)
(* Identifiers are sequences of segments (<<"ReadOnly","Model","ViewSet">> *)
(* is ReadOnlyModelViewSet), so that Python's substring test `a in b` and  *)
(* str.startswith are computed, not assumed.                               *)
(***************************************************************************)
EXTENDS Integers, Sequences, FiniteSets, Bags, TLC

VARIABLES
    class_node,     \* the ast.ClassDef handed to the model-class test and extraction
    model_info,     \* what one iteration of _parse_models_file's loop yields for it
    project,        \* the entries of the project directory, in iterdir() order
    model_name,     \* the argument of analyze_model
    analyze_result, \* what analyze_model returned or raised
    app_dir,        \* the application directory DRFAnalyzer reads
    drf_result,     \* what analyze_app returned
    viewset_node,   \* the ast.ClassDef handed to _get_standard_actions
    standard_actions, \* what _get_standard_actions returned for it
    fields_in,      \* the field descriptors handed to _convert_model_fields
    converted_fields, \* the list _convert_model_fields returned
    files,          \* the files under the current directory: path -> content
    dirs,           \* the directories under the current directory
    run,            \* arguments and locals of the command that is running
    runs,           \* how many commands were started
    pc              \* position of the modelled call: "start" or "done"

parseVars == <<class_node, model_info>>
findVars == <<project, model_name, analyze_result>>
drfVars == <<app_dir, drf_result>>
actionVars == <<viewset_node, standard_actions>>
convertVars == <<fields_in, converted_fields>>
fsVars == <<files, dirs>>
cmdVars == <<files, dirs, run, runs>>
vars == <<parseVars, findVars, drfVars, actionVars, convertVars, cmdVars, pc>>

-----------------------------------------------------------------------------
(* Bounds of the model *)

MaxBases == 2
MaxBody == 2
MaxKw == 3

-----------------------------------------------------------------------------
(* Generic helpers *)

\* the sequences over S of length at most n
SeqUpTo(S, n) == UNION { [1..k -> S] : k \in 0..n }

\* Python `pat in name` on identifiers: pat is a contiguous part of name
Contains(name, pat) ==
    \E i \in 0..(Len(name) - Len(pat)) :
        \A j \in 1..Len(pat) : name[i + j] = pat[j]

\* Python str.startswith with a one-segment prefix
StartsWith(name, seg) == Len(name) > 0 /\ name[1] = seg

-----------------------------------------------------------------------------
(* Python values, as the analyzers store them in their dictionaries *)

PyBool(b) == [ty |-> "bool", v |-> IF b THEN <<"True">> ELSE <<"False">>]
PyInt(n) == [ty |-> "int", v |-> <<ToString(n)>>]
PyStr(s) == [ty |-> "str", v |-> s]
PyNone == [ty |-> "NoneType", v |-> <<"None">>]

\* bool(x) of a Python value
Truthy(x) ==
    CASE x.ty = "bool" -> x.v = <<"True">>
      [] x.ty = "int" -> x.v # <<"0">>
      [] x.ty = "str" -> x.v # <<>>
      [] OTHER -> FALSE

\* Python's `a or b`: the first operand when it is truthy, else the second
PyOr(a, b) == IF Truthy(a) THEN a ELSE b

\* dict.get(key, default)
DictGet(d, key, default) == IF key \in DOMAIN d THEN d[key] ELSE default

\* {**a, **b}: the keys of both, b's value where both have the key
DictMerge(a, b) ==
    [k \in (DOMAIN a) \cup (DOMAIN b) |-> IF k \in DOMAIN b THEN b[k] ELSE a[k]]

EmptyDict == [k \in {} |-> PyNone]

-----------------------------------------------------------------------------
(* Syntax-tree nodes (the shapes of Python's ast module the code tests) *)

Name(id) == [kind |-> "Name", id |-> id]
Attribute(value, attr) == [kind |-> "Attribute", value |-> value, attr |-> attr]
\* a literal: ast.literal_eval gives val; ast.unparse gives src
Literal(val, src) == [kind |-> "Constant", literal |-> TRUE, val |-> val, src |-> src]
\* an expression ast.literal_eval refuses with ValueError
Expr(src) == [kind |-> "Expr", literal |-> FALSE, src |-> src]
Keyword(arg, value) == [arg |-> arg, value |-> value]
\* ast.keyword.arg is None for **kwargs unpacking
NoArg == <<>>
Call(func, args, keywords) ==
    [kind |-> "Call", literal |-> FALSE, func |-> func, args |-> args,
     keywords |-> keywords, src |-> <<"call(...)">>]

Assign(targets, value) == [kind |-> "Assign", targets |-> targets, value |-> value]
AnnAssign(target, value) == [kind |-> "AnnAssign", target |-> target, value |-> value]
FunctionDef(name, decorators) ==
    [kind |-> "FunctionDef", name |-> name, decorator_list |-> decorators]
AsyncFunctionDef(name, decorators) ==
    [kind |-> "AsyncFunctionDef", name |-> name, decorator_list |-> decorators]
ExprStmt(value) == [kind |-> "ExprStmt", value |-> value]
ClassDef(name, bases, body) ==
    [kind |-> "ClassDef", name |-> name, bases |-> bases, body |-> body]

NoResult == [kind |-> "None"]


-----------------------------------------------------------------------------
(* DjangoAnalyzer: the model-class test and the extraction of a class *)

\* _is_model_class with the Attribute branch accepting any attr of `models`
IsModelBase_AnyAttr(base) ==
    \/ base.kind = "Attribute" /\ base.value.kind = "Name"
          /\ base.value.id = <<"models">>
    \/ base.kind = "Name" /\ base.id = <<"Model">>

\* one base passes the test of _is_model_class's loop body
IsModelBase(base) ==
    \/ base.kind = "Attribute" /\ base.value.kind = "Name"
          /\ base.value.id = <<"models">> /\ base.attr = <<"Model">>
    \/ base.kind = "Name" /\ base.id = <<"Model">>

\* _is_model_class: some base of the class passes
IsModelClass(node) == \E i \in 1..Len(node.bases) : IsModelBase(node.bases[i])

\* _extract_field_type: the attr of a call models.<X>(...), else None
ExtractFieldType(value) ==
    IF /\ value.kind = "Call"
       /\ value.func.kind = "Attribute"
       /\ value.func.value.kind = "Name"
       /\ value.func.value.id = <<"models">>
    THEN value.func.attr
    ELSE NoArg

\* what _extract_field_options stores for one keyword value: literal_eval's
\* result, or the source text when literal_eval raises
OptionValue(value) == IF value.literal THEN value.val ELSE PyStr(value.src)

\* _extract_field_options with the fallback storing the text of literals too
RECURSIVE OptionsOf_AllText(_, _)
OptionsOf_AllText(keywords, i) ==
    IF i = 0 THEN EmptyDict
    ELSE LET k == keywords[i]
             rest == OptionsOf_AllText(keywords, i - 1)
         IN  IF k.arg # NoArg
             THEN DictMerge(rest, [a \in {k.arg} |-> PyStr(k.value.src)])
             ELSE rest

\* the loop of _extract_field_options over keywords[1..i]
RECURSIVE OptionsOf(_, _)
OptionsOf(keywords, i) ==
    IF i = 0 THEN EmptyDict
    ELSE LET k == keywords[i]
             rest == OptionsOf(keywords, i - 1)
         IN  IF k.arg # NoArg
             THEN DictMerge(rest, [a \in {k.arg} |-> OptionValue(k.value)])
             ELSE rest

\* _extract_field_options
ExtractFieldOptions(value) ==
    IF value.kind = "Call" THEN OptionsOf(value.keywords, Len(value.keywords))
    ELSE EmptyDict

\* _extract_field_info: the descriptor of an Assign node, or None
ExtractFieldInfo(assign) ==
    IF Len(assign.targets) # 1 THEN NoResult
    ELSE IF assign.targets[1].kind # "Name" THEN NoResult
    ELSE LET field_name == assign.targets[1].id
             field_type == ExtractFieldType(assign.value)
         IN  IF \/ StartsWith(field_name, "_")
                \/ field_name \in {<<"objects">>, <<"DoesNotExist">>}
             THEN NoResult
             ELSE IF field_type = NoArg THEN NoResult
             ELSE DictMerge(
                    [k \in {<<"name">>, <<"type">>} |->
                        IF k = <<"name">> THEN PyStr(field_name)
                        ELSE PyStr(field_type)],
                    ExtractFieldOptions(assign.value))

\* _extract_meta_info: every plain-name target of every Assign of Meta's body
RECURSIVE ExtractMetaInfo(_, _)
ExtractMetaInfo(body, i) ==
    IF i = 0 THEN EmptyDict
    ELSE LET node == body[i]
             rest == ExtractMetaInfo(body, i - 1)
         IN  IF node.kind = "Assign"
             THEN DictMerge(rest,
                    [t \in { node.targets[j].id : j \in
                              { j \in 1..Len(node.targets) :
                                    node.targets[j].kind = "Name" } }
                        |-> OptionValue(node.value)])
             ELSE rest

\* _extract_docstring
ExtractDocstring(node) ==
    IF /\ Len(node.body) > 0
       /\ node.body[1].kind = "ExprStmt"
       /\ node.body[1].value.kind = "Constant"
    THEN node.body[1].value.val
    ELSE PyStr(<<>>)

\* the fields loop of _extract_model_info over body[i..]
RECURSIVE FieldsOf(_, _)
FieldsOf(body, i) ==
    IF i > Len(body) THEN <<>>
    ELSE LET info == IF body[i].kind = "Assign"
                     THEN ExtractFieldInfo(body[i]) ELSE NoResult
         IN  (IF info # NoResult THEN <<info>> ELSE <<>>) \o FieldsOf(body, i + 1)

\* the meta_info left by the loop of _extract_model_info: that of the last
\* class Meta of the body
RECURSIVE MetaOf(_, _)
MetaOf(body, i) ==
    IF i = 0 THEN EmptyDict
    ELSE IF body[i].kind = "ClassDef" /\ body[i].name = <<"Meta">>
         THEN ExtractMetaInfo(body[i].body, Len(body[i].body))
         ELSE MetaOf(body, i - 1)

\* _extract_model_info
ExtractModelInfo(node, file_path) ==
    [kind |-> "dict",
     model_class |-> node.name,
     file_path |-> file_path,
     fields |-> FieldsOf(node.body, 1),
     meta |-> MetaOf(node.body, Len(node.body)),
     description |-> ExtractDocstring(node)]

\* the if of _parse_models_file's loop, for one node of ast.walk
ParseClassNode(node, target_model, file_path) ==
    IF node.kind = "ClassDef" /\ node.name = target_model /\ IsModelClass(node)
    THEN ExtractModelInfo(node, file_path)
    ELSE NoResult

-----------------------------------------------------------------------------
(* Inputs of the class-level analysis: class definitions as they can be    *)
(* written in a models file                                                *)

ModelsModel == Attribute(Name(<<"models">>), <<"Model">>)

BaseShapes ==
    { ModelsModel,                                             \* models.Model
      Name(<<"Model">>),                                       \* Model
      Name(<<"Timestamped">>),                                 \* a class of the file
      Name(<<"Base", "Model">>),                               \* BaseModel
      Attribute(Name(<<"models">>), <<"Manager">>),            \* models.Manager
      Attribute(Name(<<"db">>), <<"Model">>),                  \* db.Model
      Attribute(Attribute(Name(<<"db">>), <<"models">>), <<"Model">>), \* db.models.Model
      [kind |-> "Other"] }                                     \* a call, a subscript

LitTrue == Literal(PyBool(TRUE), <<"True">>)
LitFalse == Literal(PyBool(FALSE), <<"False">>)
LitText == Literal(PyStr(<<"TextField">>), <<"'TextField'">>)
LitOne == Literal(PyInt(1), <<"1">>)
ExprNow == Expr(<<"timezone.now">>)
ExprUser == Expr(<<"User">>)

Keywords ==
    { Keyword(<<"null">>, LitTrue),        \* null=True
      Keyword(<<"blank">>, LitFalse),      \* blank=False
      Keyword(<<"default">>, ExprNow),     \* default=timezone.now
      Keyword(<<"type">>, LitText),        \* type='TextField'
      Keyword(NoArg, Expr(<<"extra">>)) }  \* **extra

\* keyword lists Python accepts: no named argument is repeated
KwLists(n) ==
    { ks \in SeqUpTo(Keywords, n) :
        \A i, j \in 1..Len(ks) : (i # j /\ ks[i].arg # NoArg) => ks[i].arg # ks[j].arg }

ModelsCall(attr, args, kws) == Call(Attribute(Name(<<"models">>), attr), args, kws)

FieldValues ==
    { ModelsCall(<<"CharField">>, <<>>, <<>>),                          \* models.CharField()
      ModelsCall(<<"ForeignKey">>, <<ExprUser>>, <<>>),                 \* models.ForeignKey(User)
      ModelsCall(<<"CharField">>, <<>>, <<Keyword(<<"type">>, LitText)>>),
      Call(Name(<<"CharField">>), <<>>, <<>>),                          \* CharField()
      Call(Attribute(Name(<<"fields">>), <<"CharField">>), <<>>, <<>>), \* fields.CharField()
      Call(Attribute(Attribute(Name(<<"db">>), <<"models">>), <<"CharField">>),
           <<>>, <<>>),                                                 \* db.models.CharField()
      LitOne }                                                          \* 1

TargetLists ==
    { <<Name(<<"title">>)>>,
      <<Name(<<"_", "state">>)>>,
      <<Name(<<"objects">>)>>,
      <<Name(<<"DoesNotExist">>)>>,
      <<Attribute(Name(<<"cls">>), <<"title">>)>>,
      <<Name(<<"title">>), Name(<<"label">>)>> }

MetaClass ==
    ClassDef(<<"Meta">>, <<>>,
             << Assign(<<Name(<<"abstract">>)>>, LitTrue),
                Assign(<<Name(<<"ordering">>)>>, ExprNow) >>)

Statements ==
    { Assign(t, ModelsCall(<<"CharField">>, <<>>, <<>>)) : t \in TargetLists }
    \cup { Assign(<<Name(<<"title">>)>>, v) : v \in FieldValues }
    \cup { AnnAssign(Name(<<"title">>), ModelsCall(<<"CharField">>, <<>>, <<>>)),
           FunctionDef(<<"save">>, <<>>),
           ExprStmt(Literal(PyStr(<<"An article">>), <<"'An article'">>)),
           MetaClass }

\* one-field bodies whose call varies in its positional and keyword arguments
KeywordBodies ==
    { << Assign(<<Name(<<"title">>)>>, ModelsCall(<<"CharField">>, a, ks)) >> :
        a \in {<<>>, <<ExprUser>>}, ks \in KwLists(MaxKw) }

ClassNodes ==
    { ClassDef(<<"Article">>, b,
               <<Assign(<<Name(<<"title">>)>>, ModelsCall(<<"CharField">>, <<>>, <<>>))>>) :
        b \in SeqUpTo(BaseShapes, MaxBases) }
    \cup { ClassDef(<<"Article">>, <<ModelsModel>>, body) :
             body \in SeqUpTo(Statements, MaxBody) \cup KeywordBodies }

-----------------------------------------------------------------------------
(* Specification of the class-level analysis *)

\* the value of a variable the checked specification does not use
Unused == [kind |-> "unused"]

ParseIdle == class_node = Unused /\ model_info = Unused
FindIdle == project = Unused /\ model_name = Unused /\ analyze_result = Unused
DrfIdle == app_dir = Unused /\ drf_result = Unused
ActionsIdle == viewset_node = Unused /\ standard_actions = Unused
ConvertIdle == fields_in = Unused /\ converted_fields = Unused
CmdIdle == files = Unused /\ dirs = Unused /\ run = Unused /\ runs = 0

InitParse ==
    /\ class_node \in ClassNodes
    /\ model_info = NoResult
    /\ pc = "start"
    /\ FindIdle /\ DrfIdle /\ ActionsIdle /\ ConvertIdle /\ CmdIdle

\* _parse_models_file reaches class_node, whose name is the target
ParseClass ==
    /\ pc = "start"
    /\ model_info' = ParseClassNode(class_node, class_node.name, <<"models.py">>)
    /\ pc' = "done"
    /\ UNCHANGED <<class_node, findVars, drfVars, actionVars, convertVars, cmdVars>>

NextParse == ParseClass

SpecParse == InitParse /\ [][NextParse]_vars

-----------------------------------------------------------------------------
(* Claims about the class-level analysis (checked under SpecParse) *)

\* C2: a class is recognised as a Django model if and only if at least one of
\* its bases is written models.Model or Model; a class whose only base is
\* another class of the file is not recognised.
C2_RecognisedIffModelBase ==
    pc = "done" =>
        /\ (model_info # NoResult) <=>
              (\E i \in 1..Len(class_node.bases) :
                  class_node.bases[i] \in {ModelsModel, Name(<<"Model">>)})
        /\ class_node.bases = <<Name(<<"Timestamped">>)>> => model_info = NoResult

\* C2's case: a mixin first, models.Model second, and the class is recognised
C2_Witness ==
    /\ pc = "done"
    /\ class_node.bases = <<Name(<<"Timestamped">>), ModelsModel>>
    /\ model_info # NoResult

\* the statement is a field declaration in the sense of C3
IsFieldStatement(st) ==
    /\ st.kind = "Assign"
    /\ Len(st.targets) = 1
    /\ st.targets[1].kind = "Name"
    /\ st.targets[1].id[1] # "_"
    /\ st.targets[1].id \notin {<<"objects">>, <<"DoesNotExist">>}
    /\ st.value.kind = "Call"
    /\ st.value.func.kind = "Attribute"
    /\ st.value.func.value = Name(<<"models">>)

\* the field declarations of a class body, in source order
RECURSIVE FieldStatements(_)
FieldStatements(body) ==
    IF body = <<>> THEN <<>>
    ELSE (IF IsFieldStatement(Head(body)) THEN <<Head(body)>> ELSE <<>>)
            \o FieldStatements(Tail(body))

\* C3 (as stated): 'fields' holds, in source order, one descriptor for every
\* field declaration of the class body and none for any other statement, and
\* the type of each descriptor is the <X> of its call models.<X>(...).
C3_FieldsFollowSource ==
    (pc = "done" /\ model_info # NoResult) =>
        LET decls == FieldStatements(class_node.body)
        IN  /\ Len(model_info.fields) = Len(decls)
            /\ \A k \in 1..Len(decls) :
                  model_info.fields[k][<<"type">>] = PyStr(decls[k].value.func.attr)

\* the named keyword arguments of a call
NamedKeywords(call) ==
    { call.keywords[i] : i \in { i \in 1..Len(call.keywords) :
                                     call.keywords[i].arg # NoArg } }

\* C4: the options of an extracted field are exactly the named keyword
\* arguments of its call: a literal value is stored evaluated, any other value
\* as its source text; positional arguments and **kwargs add no option.
C4_OptionsAreNamedKeywords ==
    (pc = "done" /\ model_info # NoResult) =>
        LET decls == FieldStatements(class_node.body)
        IN  \A k \in 1..Len(model_info.fields) :
              LET opts == model_info.fields[k]
                  named == NamedKeywords(decls[k].value)
              IN  /\ DOMAIN opts = {<<"name">>, <<"type">>} \cup { kw.arg : kw \in named }
                  /\ \A kw \in named :
                        opts[kw.arg] = IF kw.value.kind = "Constant"
                                       THEN kw.value.val
                                       ELSE PyStr(kw.value.src)

\* C4's case: a call with a positional argument, a literal keyword, a
\* non-literal keyword and **kwargs, whose field has exactly the two options
C4_Witness ==
    /\ pc = "done"
    /\ Len(class_node.body) = 1
    /\ class_node.body[1].kind = "Assign"
    /\ class_node.body[1].value.kind = "Call"
    /\ class_node.body[1].value.args # <<>>
    /\ class_node.body[1].value.keywords =
          << Keyword(<<"null">>, LitTrue), Keyword(NoArg, Expr(<<"extra">>)),
             Keyword(<<"default">>, ExprNow) >>
    /\ model_info # NoResult
    /\ Len(model_info.fields) = 1
    /\ model_info.fields[1][<<"null">>] = PyBool(TRUE)
    /\ model_info.fields[1][<<"default">>] = PyStr(<<"timezone.now">>)
    /\ DOMAIN model_info.fields[1] =
          {<<"name">>, <<"type">>, <<"null">>, <<"default">>}

-----------------------------------------------------------------------------
(* DjangoAnalyzer: the search of the project for a model *)

NoFile == [kind |-> "absent"]
\* a file whose text ast.parse accepts, with the statements of the module
SourceFile(name, body) == [kind |-> "file", name |-> name, parsable |-> TRUE, body |-> body]
\* a file open() or ast.parse raises on
BrokenFile(name) == [kind |-> "file", name |-> name, parsable |-> FALSE, body |-> <<>>]
NoDir == [kind |-> "absent"]
Dir(py_files) == [kind |-> "dir", files |-> py_files]
\* an entry of the project directory; models_dir lists *.py in glob order
Entry(is_dir, apps_py, models_py, models_dir) ==
    [is_dir |-> is_dir, apps_py |-> apps_py, models_py |-> models_py,
     models_dir |-> models_dir]

\* ast.walk restricted to the class definitions: breadth first, a node's
\* children joining the end of the queue
RECURSIVE WalkClasses(_)
WalkClasses(todo) ==
    IF todo = <<>> THEN <<>>
    ELSE LET node == Head(todo)
             children == IF node.kind = "ClassDef" THEN node.body ELSE <<>>
         IN  (IF node.kind = "ClassDef" THEN <<node>> ELSE <<>>)
                \o WalkClasses(Tail(todo) \o children)

\* the first node of nodes[i..] for which the if of the loop succeeds
RECURSIVE FirstParsed(_, _, _, _)
FirstParsed(nodes, i, target_model, file_path) ==
    IF i > Len(nodes) THEN NoResult
    ELSE LET info == ParseClassNode(nodes[i], target_model, file_path)
         IN  IF info # NoResult THEN info
             ELSE FirstParsed(nodes, i + 1, target_model, file_path)

\* _parse_models_file: None when reading or parsing raises
ParseModelsFile(file, target_model) ==
    IF ~file.parsable THEN NoResult
    ELSE FirstParsed(WalkClasses(file.body), 1, target_model, file.name)

\* _is_django_app
IsDjangoApp(entry) ==
    \/ entry.apps_py
    \/ entry.models_py # NoFile
    \/ entry.models_dir # NoDir

\* the loop over models_dir.glob("*.py") from its i-th file on
RECURSIVE FindInModelsDir(_, _, _)
FindInModelsDir(py_files, i, target_model) ==
    IF i > Len(py_files) THEN NoResult
    ELSE IF py_files[i].name = <<"__init__.py">>
         THEN FindInModelsDir(py_files, i + 1, target_model)
         ELSE LET info == ParseModelsFile(py_files[i], target_model)
              IN  IF info # NoResult THEN info
                  ELSE FindInModelsDir(py_files, i + 1, target_model)

\* the body of _find_model's loop with the models/ directory never looked at
FindInApp_ModelsPyOnly(entry, target_model) ==
    IF ~entry.is_dir \/ ~IsDjangoApp(entry) THEN NoResult
    ELSE IF entry.models_py # NoFile
         THEN ParseModelsFile(entry.models_py, target_model)
         ELSE NoResult

\* the body of _find_model's loop for one entry: the model found in it, or None
FindInApp(entry, target_model) ==
    IF ~entry.is_dir \/ ~IsDjangoApp(entry) THEN NoResult
    ELSE LET in_file == IF entry.models_py # NoFile
                        THEN ParseModelsFile(entry.models_py, target_model)
                        ELSE NoResult
         IN  IF in_file # NoResult THEN in_file
             ELSE IF entry.models_dir # NoDir
                  THEN FindInModelsDir(entry.models_dir.files, 1, target_model)
                  ELSE NoResult

\* _find_model: the loop over project_path.iterdir() from the i-th entry on
RECURSIVE FindModel(_, _, _)
FindModel(entries, i, target_model) ==
    IF i > Len(entries) THEN NoResult
    ELSE LET info == FindInApp(entries[i], target_model)
         IN  IF info # NoResult THEN info
             ELSE FindModel(entries, i + 1, target_model)

\* analyze_model looking into the first entry of the project only: not the
\* program
AnalyzeModelResult_FirstEntryOnly(entries, name) ==
    LET info == IF entries = <<>> THEN NoResult ELSE FindInApp(entries[1], name)
    IN  IF info = NoResult THEN [kind |-> "ValueError"] ELSE info

\* analyze_model: `not model_info` is true of None only, the dictionary of
\* _extract_model_info having five keys
AnalyzeModelResult(entries, name) ==
    LET info == FindModel(entries, 1, name)
    IN  IF info = NoResult THEN [kind |-> "ValueError"] ELSE info

-----------------------------------------------------------------------------
(* Inputs of the project search: project directories as they can be found  *)

MaxApps == 2

TitleField == Assign(<<Name(<<"title">>)>>, ModelsCall(<<"CharField">>, <<>>, <<>>))
\* class Article(models.Model): title = models.CharField()
ArticleModel == ClassDef(<<"Article">>, <<ModelsModel>>, <<TitleField>>)
\* class Article(Timestamped): pass   -- a class of that name that is no model
ArticlePlain == ClassDef(<<"Article">>, <<Name(<<"Timestamped">>)>>, <<>>)
\* class Comment(Model): title = models.CharField(); class Meta: ...
CommentModel == ClassDef(<<"Comment">>, <<Name(<<"Model">>)>>, <<TitleField, MetaClass>>)
\* class Blog: class Article(models.Model): ...   -- the model nested in a class
BlogOuter == ClassDef(<<"Blog">>, <<>>, <<ArticleModel>>)

ModuleBodies ==
    { <<ArticleModel>>, <<ArticlePlain, CommentModel>>, <<BlogOuter>> }

ModelsPyFiles ==
    { NoFile, BrokenFile(<<"models.py">>) }
    \cup { SourceFile(<<"models.py">>, b) : b \in ModuleBodies }

ModelsDirs ==
    { NoDir, Dir(<<>>),
      Dir(<<SourceFile(<<"__init__.py">>, <<ArticleModel>>)>>),
      Dir(<<BrokenFile(<<"article.py">>), SourceFile(<<"comment.py">>, <<CommentModel>>)>>),
      Dir(<<SourceFile(<<"article.py">>, <<ArticleModel>>)>>) }

Entries ==
    { Entry(FALSE, FALSE, NoFile, NoDir) }       \* a plain file, such as manage.py
    \cup { Entry(TRUE, a, f, d) : a \in BOOLEAN, f \in ModelsPyFiles, d \in ModelsDirs }

ModelNames == { <<"Article">>, <<"Comment">> }

-----------------------------------------------------------------------------
(* Specification of analyze_model *)

InitFind ==
    /\ project \in SeqUpTo(Entries, MaxApps)
    /\ model_name \in ModelNames
    /\ analyze_result = NoResult
    /\ pc = "start"
    /\ ParseIdle /\ DrfIdle /\ ActionsIdle /\ ConvertIdle /\ CmdIdle

\* DjangoAnalyzer(project).analyze_model(model_name)
AnalyzeModel ==
    /\ pc = "start"
    /\ analyze_result' = AnalyzeModelResult(project, model_name)
    /\ pc' = "done"
    /\ UNCHANGED <<project, model_name, parseVars, drfVars, actionVars, convertVars, cmdVars>>

NextFind == AnalyzeModel

SpecFind == InitFind /\ [][NextFind]_vars

-----------------------------------------------------------------------------
(* Claims about analyze_model (checked under SpecFind) *)

\* the class definitions of a list of statements, at any depth
RECURSIVE ClassesIn(_)
ClassesIn(body) ==
    UNION { IF body[i].kind = "ClassDef"
            THEN {body[i]} \cup ClassesIn(body[i].body)
            ELSE {} : i \in 1..Len(body) }

\* the file is parsable and defines a class of that name written as a model
DefinesModel(file, name) ==
    /\ file.kind = "file"
    /\ file.parsable
    /\ \E c \in ClassesIn(file.body) :
          /\ c.name = name
          /\ \E i \in 1..Len(c.bases) : c.bases[i] \in {ModelsModel, Name(<<"Model">>)}

\* the models files of an entry that C1 counts: models.py and the files of
\* models/ other than __init__.py, of a directory holding apps.py, models.py
\* or models/
ModelsFilesOf(entry) ==
    IF ~entry.is_dir \/ ~(entry.apps_py \/ entry.models_py.kind = "file"
                            \/ entry.models_dir.kind = "dir")
    THEN {}
    ELSE {entry.models_py}
         \cup (IF entry.models_dir.kind = "dir"
               THEN { entry.models_dir.files[i] :
                        i \in { i \in 1..Len(entry.models_dir.files) :
                                  entry.models_dir.files[i].name # <<"__init__.py">> } }
               ELSE {})

\* C1: analyze_model(name) raises ValueError exactly when no models file of a
\* Django-app directory directly under the project defines a model class
\* named name; otherwise it returns a description whose model_class is name.
C1_RaisesIffNoModel ==
    pc = "done" =>
        LET found == \E i \in 1..Len(project) :
                        \E f \in ModelsFilesOf(project[i]) : DefinesModel(f, model_name)
        IN  /\ (analyze_result.kind = "ValueError") <=> ~found
            /\ found => analyze_result.model_class = model_name

\* C1's case: the first directory's models.py cannot be parsed, the second
\* has no models.py but a models/ directory holding the model, and it is found
C1_Witness ==
    /\ pc = "done"
    /\ Len(project) = 2
    /\ project[1].models_py = BrokenFile(<<"models.py">>)
    /\ project[1].models_dir = NoDir
    /\ project[2].models_py = NoFile
    /\ project[2].models_dir = Dir(<<BrokenFile(<<"article.py">>),
                                     SourceFile(<<"comment.py">>, <<CommentModel>>)>>)
    /\ model_name = <<"Comment">>
    /\ analyze_result.kind = "dict"
    /\ analyze_result.model_class = <<"Comment">>

\* the models files of an entry in the order they are visited, for the
\* entries that are Django-app directories
ModelsFileSeq(entry) ==
    IF ModelsFilesOf(entry) = {} THEN <<>>
    ELSE (IF entry.models_py # NoFile THEN <<entry.models_py>> ELSE <<>>)
         \o (IF entry.models_dir.kind = "dir"
             THEN SelectSeq(entry.models_dir.files,
                            LAMBDA f : f.name # <<"__init__.py">>)
             ELSE <<>>)

\* the places <<entry, file>> of the models files that define the model
DefiningPlaces(entries, name) ==
    { pl \in UNION { { <<i, k>> : k \in 1..Len(ModelsFileSeq(entries[i])) } :
                      i \in 1..Len(entries) } :
        DefinesModel(ModelsFileSeq(entries[pl[1]])[pl[2]], name) }

\* the orders of 1..n
Orders(n) == { f \in [1..n -> 1..n] : \A i, j \in 1..n : f[i] = f[j] => i = j }

\* an entry whose models/ directory is globbed in the order given
Globbed(entry, order) ==
    IF entry.models_dir.kind # "dir" THEN entry
    ELSE [entry EXCEPT !.models_dir =
            Dir([k \in 1..Len(entry.models_dir.files) |-> entry.models_dir.files[order[k]]])]

\* the project as iterdir() and glob() can list it: the entries and the files
\* of every models/ directory in any order
Listings(entries) ==
    LET n == Len(entries)
        dir_len(i) == IF entries[i].models_dir.kind = "dir"
                      THEN Len(entries[i].models_dir.files) ELSE 0
        lens == {0} \cup { dir_len(i) : i \in 1..n }
        max_len == CHOOSE m \in lens : \A l \in lens : l <= m
    IN  { [i \in 1..n |-> Globbed(entries[f[i]],
                                  IF dir_len(f[i]) = max_len THEN g ELSE [k \in 1..dir_len(f[i]) |-> k])] :
            f \in Orders(n), g \in Orders(max_len) }

\* C24: when exactly one models file of the Django-app directories defines a
\* model class named M, analyze_model(M) returns the description taken from
\* that file, and returns the same for every order in which the directories
\* and the files of models/ are listed, unparsable files and classes named M
\* that are no models being passed over
C24_OneDefiningFileIsFound ==
    (pc = "done" /\ Cardinality(DefiningPlaces(project, model_name)) = 1) =>
        LET pl == CHOOSE pl \in DefiningPlaces(project, model_name) : TRUE
            file == ModelsFileSeq(project[pl[1]])[pl[2]]
        IN  /\ analyze_result = ParseModelsFile(file, model_name)
            /\ analyze_result.kind = "dict"
            /\ \A listing \in Listings(project) :
                  AnalyzeModelResult(listing, model_name) = analyze_result

\* the first directory's models.py defines a class Article that is no model,
\* its models/ holds a file that cannot be parsed, and the second directory
\* defines the model Article, which is found
C24_Witness ==
    /\ pc = "done"
    /\ Len(project) = 2
    /\ model_name = <<"Article">>
    /\ project[1].models_py = SourceFile(<<"models.py">>, <<ArticlePlain, CommentModel>>)
    /\ project[1].models_dir = Dir(<<BrokenFile(<<"article.py">>),
                                     SourceFile(<<"comment.py">>, <<CommentModel>>)>>)
    /\ project[2].models_py = SourceFile(<<"models.py">>, <<ArticleModel>>)
    /\ project[2].models_dir = NoDir
    /\ Cardinality(DefiningPlaces(project, model_name)) = 1
    /\ analyze_result = ParseModelsFile(project[2].models_py, model_name)

-----------------------------------------------------------------------------
(* DRFAnalyzer *)

\* one base passes the test of _is_serializer_class, with the qualifier of
\* an attribute base not looked at
IsSerializerBase_AnyQualifier(base) ==
    \/ base.kind = "Attribute" /\ Contains(base.attr, <<"Serializer">>)
    \/ base.kind = "Name" /\ Contains(base.id, <<"Serializer">>)

\* one base passes the test of _is_serializer_class's loop body
IsSerializerBase(base) ==
    \/ base.kind = "Attribute" /\ base.value.kind = "Name"
          /\ base.value.id = <<"serializers">>
          /\ Contains(base.attr, <<"Serializer">>)
    \/ base.kind = "Name" /\ Contains(base.id, <<"Serializer">>)

\* _is_serializer_class
IsSerializerClass(node) ==
    \E i \in 1..Len(node.bases) : IsSerializerBase(node.bases[i])

\* _is_viewset_class
IsViewsetClass(node) ==
    \E i \in 1..Len(node.bases) :
        LET base == node.bases[i]
        IN  \/ base.kind = "Attribute" /\ base.value.kind = "Name"
                  /\ base.value.id = <<"viewsets">>
                  /\ Contains(base.attr, <<"ViewSet">>)
            \/ base.kind = "Name" /\ Contains(base.id, <<"ViewSet">>)

\* _extract_serializer_field: name and type of serializers.<X>(...), or None
ExtractSerializerField(assign) ==
    IF Len(assign.targets) # 1 THEN NoResult
    ELSE IF assign.targets[1].kind # "Name" THEN NoResult
    ELSE IF /\ assign.value.kind = "Call"
            /\ assign.value.func.kind = "Attribute"
            /\ assign.value.func.value.kind = "Name"
            /\ assign.value.func.value.id = <<"serializers">>
         THEN [k \in {<<"name">>, <<"type">>} |->
                  IF k = <<"name">> THEN PyStr(assign.targets[1].id)
                  ELSE PyStr(assign.value.func.attr)]
         ELSE NoResult

\* the fields loop of _extract_serializer_info over body[i..]
RECURSIVE SerializerFieldsOf(_, _)
SerializerFieldsOf(body, i) ==
    IF i > Len(body) THEN <<>>
    ELSE LET info == IF body[i].kind = "Assign"
                     THEN ExtractSerializerField(body[i]) ELSE NoResult
         IN  (IF info # NoResult THEN <<info>> ELSE <<>>)
                \o SerializerFieldsOf(body, i + 1)

\* DRFAnalyzer._extract_meta_info, the same text as DjangoAnalyzer's
DrfExtractMetaInfo(body) == ExtractMetaInfo(body, Len(body))

\* the meta_info left by the loop of _extract_serializer_info
RECURSIVE SerializerMetaOf(_, _)
SerializerMetaOf(body, i) ==
    IF i = 0 THEN EmptyDict
    ELSE IF body[i].kind = "ClassDef" /\ body[i].name = <<"Meta">>
         THEN DrfExtractMetaInfo(body[i].body)
         ELSE SerializerMetaOf(body, i - 1)

\* the model left by the loop of _extract_serializer_info: meta_info.get('model')
\* of the last class Meta, None without one
SerializerModelOf(body) ==
    IF \E i \in 1..Len(body) : body[i].kind = "ClassDef" /\ body[i].name = <<"Meta">>
    THEN DictGet(SerializerMetaOf(body, Len(body)), <<"model">>, PyNone)
    ELSE PyNone

\* _extract_serializer_info
ExtractSerializerInfo(node, file_path) ==
    [class_name |-> node.name,
     file_path |-> file_path,
     model |-> SerializerModelOf(node.body),
     fields |-> SerializerFieldsOf(node.body, 1),
     meta |-> SerializerMetaOf(node.body, Len(node.body))]

\* _has_action_decorator
HasActionDecorator(func) ==
    \E i \in 1..Len(func.decorator_list) :
        LET decorator == func.decorator_list[i]
        IN  \/ decorator.kind = "Name" /\ decorator.id = <<"action">>
            \/ decorator.kind = "Call" /\ decorator.func.kind = "Name"
                  /\ decorator.func.id = <<"action">>

ModelViewSetActions ==
    << <<"list">>, <<"create">>, <<"retrieve">>, <<"update">>,
       <<"partial_update">>, <<"destroy">> >>
ReadOnlyActions == << <<"list">>, <<"retrieve">> >>
ViewSetActions ==
    << <<"list">>, <<"create">>, <<"retrieve">>, <<"update">>, <<"destroy">> >>

\* base_name of _get_standard_actions
BaseName(base) ==
    IF base.kind = "Attribute" THEN base.attr
    ELSE IF base.kind = "Name" THEN base.id
    ELSE <<>>

\* _get_standard_actions with the name compared for equality with ModelViewSet
RECURSIVE StandardActionsFrom_ExactModelViewSet(_, _)
StandardActionsFrom_ExactModelViewSet(bases, i) ==
    IF i > Len(bases) THEN <<>>
    ELSE LET base_name == BaseName(bases[i])
         IN  IF base_name = <<"Model", "ViewSet">> THEN ModelViewSetActions
             ELSE IF Contains(base_name, <<"ReadOnly", "Model", "ViewSet">>)
                  THEN ReadOnlyActions
             ELSE IF Contains(base_name, <<"ViewSet">>) THEN ViewSetActions
             ELSE StandardActionsFrom_ExactModelViewSet(bases, i + 1)

\* the loop of _get_standard_actions from the i-th base on
RECURSIVE StandardActionsFrom(_, _)
StandardActionsFrom(bases, i) ==
    IF i > Len(bases) THEN <<>>
    ELSE LET base_name == BaseName(bases[i])
         IN  IF Contains(base_name, <<"Model", "ViewSet">>) THEN ModelViewSetActions
             ELSE IF Contains(base_name, <<"ReadOnly", "Model", "ViewSet">>)
                  THEN ReadOnlyActions
             ELSE IF Contains(base_name, <<"ViewSet">>) THEN ViewSetActions
             ELSE StandardActionsFrom(bases, i + 1)

\* _get_standard_actions
GetStandardActions(node) == StandardActionsFrom(node.bases, 1)

\* the names the loop of _extract_viewset_info appends to actions, body[i..]
RECURSIVE CustomActionsOf(_, _)
CustomActionsOf(body, i) ==
    IF i > Len(body) THEN <<>>
    ELSE (IF body[i].kind = "FunctionDef" /\ HasActionDecorator(body[i])
          THEN <<body[i].name>> ELSE <<>>) \o CustomActionsOf(body, i + 1)

\* the value the loop of _extract_viewset_info leaves in queryset or
\* serializer_class: the text of the last assignment to that name, else None
RECURSIVE LastAssigned(_, _, _)
LastAssigned(body, i, id) ==
    IF i = 0 THEN PyNone
    ELSE IF /\ body[i].kind = "Assign"
            /\ \E j \in 1..Len(body[i].targets) : body[i].targets[j] = Name(id)
         THEN PyStr(body[i].value.src)
         ELSE LastAssigned(body, i - 1, id)

\* the elements of a list, each as often as it occurs
RECURSIVE BagOfSeq(_)
BagOfSeq(s) == IF s = <<>> THEN EmptyBag ELSE SetToBag({Head(s)}) (+) BagOfSeq(Tail(s))

\* actions kept as the list was built, without set()
ActionsList_NoSet(actions) == BagOfSeq(actions)

\* list(set(actions)): each element once; the order of the list is that of
\* the set's iteration, which the language leaves open, so the list is kept
\* as the bag of its elements
ActionsList(actions) == SetToBag({ actions[i] : i \in 1..Len(actions) })

\* _extract_viewset_info
ExtractViewsetInfo(node, file_path) ==
    [class_name |-> node.name,
     file_path |-> file_path,
     queryset |-> LastAssigned(node.body, Len(node.body), <<"queryset">>),
     serializer_class |-> LastAssigned(node.body, Len(node.body), <<"serializer_class">>),
     actions |-> ActionsList(CustomActionsOf(node.body, 1) \o GetStandardActions(node))]

\* the loop of _analyze_serializers over the nodes of ast.walk
RECURSIVE SerializersOf(_, _)
SerializersOf(nodes, file_path) ==
    IF nodes = <<>> THEN <<>>
    ELSE (IF IsSerializerClass(Head(nodes))
          THEN <<ExtractSerializerInfo(Head(nodes), file_path)>> ELSE <<>>)
            \o SerializersOf(Tail(nodes), file_path)

\* _analyze_serializers: the empty list when reading or parsing raises
AnalyzeSerializers(file) ==
    IF ~file.parsable THEN <<>>
    ELSE SerializersOf(WalkClasses(file.body), file.name)

\* the loop of _analyze_viewsets over the nodes of ast.walk
RECURSIVE ViewsetsOf(_, _)
ViewsetsOf(nodes, file_path) ==
    IF nodes = <<>> THEN <<>>
    ELSE (IF IsViewsetClass(Head(nodes))
          THEN <<ExtractViewsetInfo(Head(nodes), file_path)>> ELSE <<>>)
            \o ViewsetsOf(Tail(nodes), file_path)

\* _analyze_viewsets
AnalyzeViewsets(file) ==
    IF ~file.parsable THEN <<>>
    ELSE ViewsetsOf(WalkClasses(file.body), file.name)

\* analyze_app letting the error of a file that cannot be read or parsed out:
\* not the program
AnalyzeAppResult_Raising(app) ==
    IF app.serializers_py # NoFile /\ ~ app.serializers_py.parsable
    THEN [kind |-> "SyntaxError"]
    ELSE IF app.views_py # NoFile /\ ~ app.views_py.parsable
    THEN [kind |-> "SyntaxError"]
    ELSE [serializers |-> IF app.serializers_py # NoFile
                          THEN AnalyzeSerializers(app.serializers_py) ELSE <<>>,
          viewsets |-> IF app.views_py # NoFile
                       THEN AnalyzeViewsets(app.views_py) ELSE <<>>,
          issues |-> <<>>]

\* analyze_app
AnalyzeAppResult(app) ==
    [serializers |-> IF app.serializers_py # NoFile
                     THEN AnalyzeSerializers(app.serializers_py) ELSE <<>>,
     viewsets |-> IF app.views_py # NoFile
                  THEN AnalyzeViewsets(app.views_py) ELSE <<>>,
     issues |-> <<>>]

-----------------------------------------------------------------------------
(* Inputs of analyze_app: serializers.py and views.py as they can be written *)

SerializerBases ==
    { Attribute(Name(<<"serializers">>), <<"Model", "Serializer">>),
      Attribute(Name(<<"serializers">>), <<"Serializer">>),
      Attribute(Name(<<"serializers">>), <<"Field">>),
      Attribute(Name(<<"drf">>), <<"Serializer">>),               \* drf.Serializer
      Attribute(Attribute(Name(<<"drf">>), <<"serializers">>),
                <<"Serializer">>),                                \* drf.serializers.Serializer
      Name(<<"Base", "Serializer">>),
      Name(<<"Serializer", "Mixin">>),
      Name(<<"Timestamped">>),
      [kind |-> "Other"] }

SerializerField ==
    Assign(<<Name(<<"title">>)>>,
           Call(Attribute(Name(<<"serializers">>), <<"CharField">>), <<>>, <<>>))
SerializerMeta ==
    ClassDef(<<"Meta">>, <<>>, <<Assign(<<Name(<<"model">>)>>, ExprUser)>>)

SerializerClass(name, bases) ==
    ClassDef(name, bases, <<SerializerField, TitleField, SerializerMeta>>)

UserSerializer ==
    SerializerClass(<<"User", "Serializer">>,
                    <<Attribute(Name(<<"serializers">>), <<"Model", "Serializer">>)>>)

\* module bodies of serializers.py: one class with any bases; a class
\* nested in a plain class, in a serializer, and two levels deep
SerializerModules ==
    { <<SerializerClass(<<"A">>, b)>> : b \in SeqUpTo(SerializerBases, MaxBases) }
    \cup { <<ClassDef(<<"Outer">>, <<>>, <<UserSerializer>>)>>,
           <<ClassDef(<<"Outer">>, UserSerializer.bases, <<UserSerializer>>),
             SerializerClass(<<"B">>, <<Name(<<"Timestamped">>)>>)>>,
           <<ClassDef(<<"Outer">>, <<>>,
                      <<ClassDef(<<"Inner">>, <<>>, <<UserSerializer>>)>>),
             UserSerializer>> }

ViewsetBases ==
    { Attribute(Name(<<"viewsets">>), <<"Model", "ViewSet">>),
      Attribute(Name(<<"viewsets">>), <<"ReadOnly", "Model", "ViewSet">>),
      Attribute(Name(<<"viewsets">>), <<"ViewSet">>),
      Attribute(Name(<<"viewsets">>), <<"Generic", "ViewSet">>),
      Attribute(Name(<<"drf">>), <<"Model", "ViewSet">>),          \* drf.ModelViewSet
      Attribute(Name(<<"mixins">>), <<"List", "Model", "Mixin">>),
      Name(<<"ReadOnly", "Model", "ViewSet">>),
      Name(<<"Tenant", "Model", "ViewSet", "Base">>),
      Name(<<"APIView">>),
      [kind |-> "Other"] }

DecoratorLists ==
    { <<>>,
      <<Name(<<"action">>)>>,                                       \* @action
      <<Call(Name(<<"action">>), <<>>, <<>>)>>,                     \* @action(...)
      <<Attribute(Name(<<"decorators">>), <<"action">>)>>,          \* @decorators.action
      <<Call(Attribute(Name(<<"decorators">>), <<"action">>), <<>>, <<>>)>>,
      <<Name(<<"cached">>)>>,                                       \* @cached
      <<Name(<<"cached">>), Call(Name(<<"action">>), <<>>, <<>>)>> }

ViewsetStatements ==
    { FunctionDef(n, d) : n \in {<<"list">>, <<"publish">>, <<"destroy">>},
                          d \in DecoratorLists }
    \cup { AsyncFunctionDef(<<"publish">>, <<Name(<<"action">>)>>),
           Assign(<<Name(<<"queryset">>)>>, ExprUser),
           Assign(<<Name(<<"serializer_class">>)>>, ExprNow),
           \* a decorated function of a nested class, not of the viewset
           ClassDef(<<"Helper">>, <<>>, <<FunctionDef(<<"archive">>, <<Name(<<"action">>)>>)>>) }

\* viewset classes: any bases with a body of decorated and plain methods,
\* and any body under each kind of determining base
ViewsetClasses ==
    { ClassDef(<<"V">>, b, body) :
        b \in SeqUpTo(ViewsetBases, MaxBases),
        body \in { <<>>,
                   << FunctionDef(<<"list">>, <<Name(<<"action">>)>>),
                      FunctionDef(<<"publish">>, <<Call(Name(<<"action">>), <<>>, <<>>)>>),
                      FunctionDef(<<"destroy">>, <<>>) >> } }
    \cup { ClassDef(<<"V">>, <<b>>, body) :
             b \in { Attribute(Name(<<"viewsets">>), <<"Model", "ViewSet">>),
                     Attribute(Name(<<"viewsets">>), <<"ReadOnly", "Model", "ViewSet">>),
                     Attribute(Name(<<"viewsets">>), <<"ViewSet">>) },
             body \in SeqUpTo(ViewsetStatements, MaxBody) }

ViewsModules ==
    { <<c>> : c \in ViewsetClasses }
    \cup { << ClassDef(<<"Outer">>, <<>>,
                       <<ClassDef(<<"W">>, <<Name(<<"ReadOnly", "Model", "ViewSet">>)>>, <<>>)>>),
              ClassDef(<<"X">>, <<Attribute(Name(<<"viewsets">>), <<"ViewSet">>)>>,
                       <<FunctionDef(<<"publish">>, <<Name(<<"action">>)>>)>>) >> }

SerializersPyFiles ==
    { NoFile, BrokenFile(<<"serializers.py">>) }
    \cup { SourceFile(<<"serializers.py">>, m) : m \in SerializerModules }

ViewsPyFiles ==
    { NoFile, BrokenFile(<<"views.py">>) }
    \cup { SourceFile(<<"views.py">>, m) : m \in ViewsModules }

AppDirs ==
    { [serializers_py |-> s, views_py |-> v] :
        s \in SerializersPyFiles,
        v \in { NoFile, BrokenFile(<<"views.py">>),
                SourceFile(<<"views.py">>,
                           <<ClassDef(<<"V">>, <<Name(<<"ReadOnly", "Model", "ViewSet">>)>>,
                                      <<>>)>>) } }
    \cup { [serializers_py |-> s, views_py |-> v] :
             s \in { NoFile, BrokenFile(<<"serializers.py">>),
                     SourceFile(<<"serializers.py">>, <<UserSerializer>>) },
             v \in ViewsPyFiles }

-----------------------------------------------------------------------------
(* Specification of analyze_app *)

InitDrf ==
    /\ app_dir \in AppDirs
    /\ drf_result = NoResult
    /\ pc = "start"
    /\ ParseIdle /\ FindIdle /\ ActionsIdle /\ ConvertIdle /\ CmdIdle

\* DRFAnalyzer(app_dir).analyze_app()
AnalyzeApp ==
    /\ pc = "start"
    /\ drf_result' = AnalyzeAppResult(app_dir)
    /\ pc' = "done"
    /\ UNCHANGED <<app_dir, parseVars, findVars, actionVars, convertVars, cmdVars>>

NextDrf == AnalyzeApp

SpecDrf == InitDrf /\ [][NextDrf]_vars


\* the classes _get_standard_actions can be handed: any list of bases
StandardActionInputs ==
    { ClassDef(<<"V">>, b, <<>>) : b \in SeqUpTo(ViewsetBases, MaxBases) }

InitActions ==
    /\ viewset_node \in StandardActionInputs
    /\ standard_actions = NoResult
    /\ pc = "start"
    /\ ParseIdle /\ FindIdle /\ DrfIdle /\ ConvertIdle /\ CmdIdle

\* self._get_standard_actions(class_node)
StandardActionsCall ==
    /\ pc = "start"
    /\ standard_actions' = GetStandardActions(viewset_node)
    /\ pc' = "done"
    /\ UNCHANGED <<viewset_node, parseVars, findVars, drfVars, convertVars, cmdVars>>

NextActions == StandardActionsCall

SpecActions == InitActions /\ [][NextActions]_vars

-----------------------------------------------------------------------------
(* Claims about DRFAnalyzer (checked under SpecDrf and SpecActions) *)

\* the class is written with a serializer base in the sense of C6
WrittenAsSerializer(c) ==
    \E i \in 1..Len(c.bases) :
        \/ /\ c.bases[i].kind = "Attribute"
           /\ c.bases[i].value = Name(<<"serializers">>)
           /\ Contains(c.bases[i].attr, <<"Serializer">>)
        \/ /\ c.bases[i].kind = "Name"
           /\ Contains(c.bases[i].id, <<"Serializer">>)

\* the names of the serializer classes of a list of statements, at any
\* depth, each as often as such a class occurs
RECURSIVE SerializerNamesIn(_)
SerializerNamesIn(body) ==
    IF body = <<>> THEN EmptyBag
    ELSE LET st == Head(body)
         IN  (IF st.kind = "ClassDef"
              THEN (IF WrittenAsSerializer(st) THEN SetToBag({st.name}) ELSE EmptyBag)
                      (+) SerializerNamesIn(st.body)
              ELSE EmptyBag)
             (+) SerializerNamesIn(Tail(body))

\* C6: analyze_app lists in 'serializers' one entry for every class of
\* serializers.py, at any nesting depth, with a base serializers.<X> where X
\* contains 'Serializer' or a bare-name base containing 'Serializer', and no
\* entry for any other class.
C6_OneEntryPerSerializerClass ==
    (pc = "done" /\ app_dir.serializers_py # NoFile /\ app_dir.serializers_py.parsable) =>
        BagOfSeq([k \in 1..Len(drf_result.serializers) |->
                    drf_result.serializers[k].class_name])
            = SerializerNamesIn(app_dir.serializers_py.body)

\* C6's case: a serializer nested in a serializer next to a class that is
\* none: the outer and the nested class are listed, the other is not
C6_Witness ==
    /\ pc = "done"
    /\ app_dir.serializers_py # NoFile
    /\ app_dir.serializers_py.parsable
    /\ Len(app_dir.serializers_py.body) = 2
    /\ app_dir.serializers_py.body[2].name = <<"B">>
    /\ Len(drf_result.serializers) = 2
    /\ drf_result.serializers[1].class_name = <<"Outer">>
    /\ drf_result.serializers[2].class_name = <<"User", "Serializer">>

\* the function is defined with def and decorated with @action or @action(...)
DecoratedWithAction(st) ==
    /\ st.kind = "FunctionDef"
    /\ \E i \in 1..Len(st.decorator_list) :
          \/ st.decorator_list[i] = Name(<<"action">>)
          \/ /\ st.decorator_list[i].kind = "Call"
             /\ st.decorator_list[i].func = Name(<<"action">>)

\* the names of the decorated functions directly in the body of a class
DecoratedNames(c) ==
    { c.body[i].name : i \in { i \in 1..Len(c.body) : DecoratedWithAction(c.body[i]) } }

\* the classes of views.py an entry of 'viewsets' was made from
ClassesOfEntry(entry) ==
    { c \in ClassesIn(app_dir.views_py.body) : c.name = entry.class_name }

Range(s) == { s[i] : i \in 1..Len(s) }

\* C7: the 'actions' of every analysed viewset have no duplicate, and a name
\* is among them if and only if it is the name of a function defined with
\* def directly in the class body and decorated with @action or @action(...),
\* or one of the standard actions derived from the class's bases.
C7_ActionsAreDecoratedOrStandard ==
    pc = "done" =>
        \A k \in 1..Len(drf_result.viewsets) :
            LET entry == drf_result.viewsets[k]
            IN  /\ ClassesOfEntry(entry) # {}
                /\ \A a \in BagToSet(entry.actions) : CopiesIn(a, entry.actions) = 1
                /\ \A c \in ClassesOfEntry(entry) :
                      BagToSet(entry.actions)
                          = DecoratedNames(c) \cup Range(GetStandardActions(c))

\* C7's case: list is decorated and standard and occurs once among the
\* actions; the undecorated publish is no action
C7_Witness ==
    /\ pc = "done"
    /\ Len(drf_result.viewsets) = 1
    /\ \E c \in ClassesOfEntry(drf_result.viewsets[1]) :
          /\ c.bases = <<Attribute(Name(<<"viewsets">>), <<"ReadOnly", "Model", "ViewSet">>)>>
          /\ c.body = << FunctionDef(<<"list">>, <<Name(<<"action">>)>>),
                         FunctionDef(<<"publish">>, <<>>) >>
    /\ CopiesIn(<<"list">>, drf_result.viewsets[1].actions) = 1
    /\ ~BagIn(<<"publish">>, drf_result.viewsets[1].actions)

\* the name of the first base, in declaration order, whose name contains
\* 'ViewSet'; <<>> when there is none
RECURSIVE DeterminingBase(_)
DeterminingBase(bases) ==
    IF bases = <<>> THEN <<>>
    ELSE LET n == IF Head(bases).kind = "Attribute" THEN Head(bases).attr
                  ELSE IF Head(bases).kind = "Name" THEN Head(bases).id
                  ELSE <<>>
         IN  IF Contains(n, <<"ViewSet">>) THEN n ELSE DeterminingBase(Tail(bases))

\* C8 (as stated): a viewset whose determining base is named
\* ReadOnlyModelViewSet has the standard actions list and retrieve only:
\* create, update, partial_update and destroy are among its actions only as
\* names of methods decorated with @action.
C8_ReadOnlyHasListAndRetrieve ==
    pc = "done" =>
        \A k \in 1..Len(drf_result.viewsets) :
            \A c \in ClassesOfEntry(drf_result.viewsets[k]) :
                DeterminingBase(c.bases) = <<"ReadOnly", "Model", "ViewSet">> =>
                    BagToSet(drf_result.viewsets[k].actions)
                        = DecoratedNames(c) \cup { <<"list">>, <<"retrieve">> }

\* whether a file is there and can be read and parsed
Readable(file) == file # NoFile /\ file.parsable

\* C19: analyze_app returns, whatever the files hold, a result with exactly the
\* keys serializers, viewsets and issues, issues empty; a missing file and a
\* file that cannot be read or parsed give the empty list for their kind, and
\* the other file is analysed all the same
C19_AnalyzeAppAlwaysReturns ==
    pc = "done" =>
        /\ DOMAIN drf_result = {"serializers", "viewsets", "issues"}
        /\ drf_result.issues = <<>>
        /\ (~ Readable(app_dir.serializers_py) => drf_result.serializers = <<>>)
        /\ (~ Readable(app_dir.views_py) => drf_result.viewsets = <<>>)
        /\ (Readable(app_dir.serializers_py) =>
               drf_result.serializers = AnalyzeSerializers(app_dir.serializers_py))
        /\ (Readable(app_dir.views_py) =>
               drf_result.viewsets = AnalyzeViewsets(app_dir.views_py))

\* serializers.py cannot be parsed and the viewsets of views.py are reported
C19_Witness ==
    /\ pc = "done"
    /\ app_dir.serializers_py = BrokenFile(<<"serializers.py">>)
    /\ drf_result.serializers = <<>>
    /\ Len(drf_result.viewsets) > 0

\* views.py is missing and the serializers of serializers.py are reported
C19_WitnessMissing ==
    /\ pc = "done"
    /\ app_dir.views_py = NoFile
    /\ drf_result.viewsets = <<>>
    /\ Len(drf_result.serializers) > 0

SixActions ==
    { <<"list">>, <<"create">>, <<"retrieve">>, <<"update">>,
      <<"partial_update">>, <<"destroy">> }
FiveActions ==
    { <<"list">>, <<"create">>, <<"retrieve">>, <<"update">>, <<"destroy">> }

\* C9 (as stated): the standard actions are decided by the first base whose
\* name contains 'ViewSet': a base named ModelViewSet gives the six actions,
\* any other such base the five, and there is none without such a base.
C9_Original_NamedModelViewSet ==
    pc = "done" =>
        LET n == DeterminingBase(viewset_node.bases)
        IN  Range(standard_actions) =
                IF n = <<>> THEN {}
                ELSE IF n = <<"Model", "ViewSet">> THEN SixActions
                ELSE FiveActions

\* C9 (amended): the standard actions are decided by the first base whose
\* name contains 'ViewSet': a base whose name contains 'ModelViewSet' gives
\* the six actions, any other such base the five, and there is none without
\* such a base.
C9_ContainsModelViewSet ==
    pc = "done" =>
        LET n == DeterminingBase(viewset_node.bases)
        IN  Range(standard_actions) =
                IF n = <<>> THEN {}
                ELSE IF Contains(n, <<"Model", "ViewSet">>) THEN SixActions
                ELSE FiveActions

\* C9's case: a mixin is skipped and the base after it, whose name contains
\* but is not ModelViewSet, gives the six actions
C9_Witness ==
    /\ pc = "done"
    /\ viewset_node.bases = << Attribute(Name(<<"mixins">>), <<"List", "Model", "Mixin">>),
                               Name(<<"Tenant", "Model", "ViewSet", "Base">>) >>
    /\ Range(standard_actions) = SixActions

-----------------------------------------------------------------------------
(* APIGenerator._convert_model_fields and the type table of the settings *)

\* DJANGO_TO_PYDANTIC_MAPPING, as the list of its items
MappingItems ==
    << <<"AutoField", "int">>, <<"BigAutoField", "int">>, <<"BigIntegerField", "int">>,
       <<"BinaryField", "bytes">>, <<"BooleanField", "bool">>, <<"CharField", "str">>,
       <<"DateField", "date">>, <<"DateTimeField", "datetime">>,
       <<"DecimalField", "Decimal">>, <<"DurationField", "timedelta">>,
       <<"EmailField", "EmailStr">>, <<"FileField", "str">>, <<"FilePathField", "str">>,
       <<"FloatField", "float">>, <<"ImageField", "str">>, <<"IntegerField", "int">>,
       <<"JSONField", "Dict[str, Any]">>, <<"PositiveBigIntegerField", "int">>,
       <<"PositiveIntegerField", "int">>, <<"PositiveSmallIntegerField", "int">>,
       <<"SlugField", "str">>, <<"SmallAutoField", "int">>, <<"SmallIntegerField", "int">>,
       <<"TextField", "str">>, <<"TimeField", "time">>, <<"URLField", "HttpUrl">>,
       <<"UUIDField", "UUID">>, <<"ForeignKey", "int">>, <<"OneToOneField", "int">>,
       <<"ManyToManyField", "List[int]">> >>

\* the dictionary: from the key (a str) to the type hint
DJANGO_TO_PYDANTIC_MAPPING ==
    [k \in { PyStr(<<MappingItems[i][1]>>) : i \in 1..Len(MappingItems) } |->
        PyStr(<<MappingItems[CHOOSE i \in 1..Len(MappingItems) :
                                MappingItems[i][1] = k.v[1]][2]>>)]

\* one element of converted_fields, with `optional` taken from null alone
ConvertField_NullOnly(field) ==
    LET field_type == DictGet(field, <<"type">>, PyStr(<<"CharField">>))
        pydantic_type == DictGet(DJANGO_TO_PYDANTIC_MAPPING, field_type, PyStr(<<"str">>))
    IN  [k \in {<<"name">>, <<"type_hint">>, <<"optional">>, <<"description">>} |->
            CASE k = <<"name">> -> field[<<"name">>]
              [] k = <<"type_hint">> -> pydantic_type
              [] k = <<"optional">> -> DictGet(field, <<"null">>, PyBool(FALSE))
              [] OTHER -> DictGet(field, <<"help_text">>, PyStr(<<>>))]

\* the dictionary the loop of _convert_model_fields appends for one field
ConvertField(field) ==
    LET field_type == DictGet(field, <<"type">>, PyStr(<<"CharField">>))
        pydantic_type == DictGet(DJANGO_TO_PYDANTIC_MAPPING, field_type, PyStr(<<"str">>))
    IN  [k \in {<<"name">>, <<"type_hint">>, <<"optional">>, <<"description">>} |->
            CASE k = <<"name">> -> field[<<"name">>]
              [] k = <<"type_hint">> -> pydantic_type
              [] k = <<"optional">> -> PyOr(DictGet(field, <<"null">>, PyBool(FALSE)),
                                            DictGet(field, <<"blank">>, PyBool(FALSE)))
              [] OTHER -> DictGet(field, <<"help_text">>, PyStr(<<>>))]

\* _convert_model_fields
ConvertModelFields(fields) == [i \in 1..Len(fields) |-> ConvertField(fields[i])]

-----------------------------------------------------------------------------
(* Inputs of _convert_model_fields: field descriptors as _extract_field_info *)
(* builds them, and descriptors without a type                             *)

MaxFields == 2

\* a dictionary from the list of its items; a value NoResult leaves the key out
DictOf(items) ==
    [k \in { items[i][1] : i \in { i \in 1..Len(items) : items[i][2] # NoResult } } |->
        items[CHOOSE i \in 1..Len(items) : items[i][1] = k][2]]

FieldTypes ==
    { NoResult,                       \* no 'type' key
      PyStr(<<"CharField">>), PyStr(<<"IntegerField">>), PyStr(<<"EmailField">>),
      PyStr(<<"ManyToManyField">>),
      PyStr(<<"MoneyField">>),        \* not a key of the table
      PyInt(1) }                      \* type=1 taken over from the call's options

FieldDescriptors ==
    { DictOf(<< <<<<"name">>, PyStr(n)>>, <<<<"type">>, t>> >>) :
        n \in {<<"title">>, <<"author">>}, t \in FieldTypes }
    \cup { DictOf(<< <<<<"name">>, PyStr(<<"title">>)>>,
                     <<<<"type">>, PyStr(<<"CharField">>)>>,
                     <<<<"null">>, nu>>, <<<<"blank">>, bl>>, <<<<"help_text">>, h>> >>) :
             nu \in { NoResult, PyBool(TRUE), PyBool(FALSE), PyStr(<<"settings.NULLABLE">>) },
             bl \in { NoResult, PyBool(TRUE), PyBool(FALSE), PyInt(0) },
             h \in { NoResult, PyStr(<<"The title">>) } }

-----------------------------------------------------------------------------
(* Specification of _convert_model_fields *)

InitConvert ==
    /\ fields_in \in SeqUpTo(FieldDescriptors, MaxFields)
    /\ converted_fields = NoResult
    /\ pc = "start"
    /\ ParseIdle /\ FindIdle /\ DrfIdle /\ ActionsIdle /\ CmdIdle

\* self._convert_model_fields(fields)
ConvertModelFieldsCall ==
    /\ pc = "start"
    /\ converted_fields' = ConvertModelFields(fields_in)
    /\ pc' = "done"
    /\ UNCHANGED <<fields_in, parseVars, findVars, drfVars, actionVars, cmdVars>>

NextConvert == ConvertModelFieldsCall

SpecConvert == InitConvert /\ [][NextConvert]_vars

-----------------------------------------------------------------------------
(* Claim about _convert_model_fields (checked under SpecConvert) *)

\* the option is present in the descriptor and truthy
OptionSet(field, key) == key \in DOMAIN field /\ Truthy(field[key])

\* C5: _convert_model_fields returns one converted field per input field, in
\* the same order and with the same name, whose type_hint is the table's
\* entry for the field's type, or 'str' when the type is missing or no key
\* of the table, and whose 'optional' is truthy exactly when the field's null
\* or blank option is truthy.
C5_ConvertedFieldsFollowInput ==
    pc = "done" =>
        /\ Len(converted_fields) = Len(fields_in)
        /\ \A i \in 1..Len(fields_in) :
              LET field == fields_in[i]
                  out == converted_fields[i]
              IN  /\ out[<<"name">>] = field[<<"name">>]
                  /\ out[<<"type_hint">>] =
                        IF /\ <<"type">> \in DOMAIN field
                           /\ field[<<"type">>] \in DOMAIN DJANGO_TO_PYDANTIC_MAPPING
                        THEN DJANGO_TO_PYDANTIC_MAPPING[field[<<"type">>]]
                        ELSE PyStr(<<"str">>)
                  /\ Truthy(out[<<"optional">>]) <=>
                        (OptionSet(field, <<"null">>) \/ OptionSet(field, <<"blank">>))

\* C5's case: two fields, the first of a type the table maps to List[int],
\* the second without null and with blank=True, hence optional
C5_Witness ==
    /\ pc = "done"
    /\ Len(fields_in) = 2
    /\ fields_in[1][<<"name">>] = PyStr(<<"author">>)
    /\ DictGet(fields_in[1], <<"type">>, PyNone) = PyStr(<<"ManyToManyField">>)
    /\ converted_fields[1][<<"name">>] = PyStr(<<"author">>)
    /\ converted_fields[1][<<"type_hint">>] = PyStr(<<"List[int]">>)
    /\ ~Truthy(converted_fields[1][<<"optional">>])
    /\ <<"null">> \notin DOMAIN fields_in[2]
    /\ OptionSet(fields_in[2], <<"blank">>)
    /\ converted_fields[2][<<"optional">>] = PyBool(TRUE)

-----------------------------------------------------------------------------
(* The directory tree the commands write to.  A name is a sequence of       *)
(* segments, a path a sequence of names below the current directory.  A     *)
(* text is the list content.split("\n") of its lines, a line a sequence of  *)
(* tokens; the empty string is the one empty line.  The Django sources the  *)
(* analyzer reads (models.py, models/) are kept in `project`: no command    *)
(* writes a file of those names.                                            *)

Text(lines) == [kind |-> "text", lines |-> lines]
EmptyText == Text(<< <<>> >>)
\* the string template.render(**context) returns
Rendered(template, context) == [kind |-> "rendered", template |-> template, context |-> context]

\* content.split("\n") of a file.  The text of a rendered template is not
\* known line by line: it is one line that holds the names of the features
\* the template was rendered with and nothing else the commands look for
Lines(content) ==
    IF content.kind = "text" THEN content.lines
    ELSE << <<"rendered ", content.template>>
            \o (IF "features" \in DOMAIN content.context
                THEN content.context.features ELSE <<>>) >>

\* the directories Path.mkdir(parents=True, exist_ok=True) makes sure of
MkdirParents(ds, path) == ds \cup { SubSeq(path, 1, n) : n \in 1..Len(path) }

Parent(path) == SubSeq(path, 1, Len(path) - 1)

\* open(path, 'w').write(content), Path.write_text(content)
WriteText(fs, path, content) ==
    [p \in DOMAIN fs \cup {path} |-> IF p = path THEN content ELSE fs[p]]

\* FileManager.write_file: the tree after it, as <<files, dirs>>.  With None
\* for content open(file_path, 'w') has emptied the file when f.write raises
\* TypeError
WriteFile(fs, ds, file_path, content) ==
    <<WriteText(fs, file_path, IF content = NoResult THEN EmptyText ELSE content),
      MkdirParents(ds, Parent(file_path))>>

CONFIG_FILE_NAME == <<".ninja-orval-forge", ".yml">>
\* get_config_path(project_dir), relative to project_dir
ConfigPath == <<CONFIG_FILE_NAME>>

\* yaml.safe_load of the configuration file: a line `section key value...`
\* stands for the entry `key: value` of the mapping `section:`; a document
\* without entries loads as None
YamlLoad(content) ==
    LET entries == { i \in 1..Len(content.lines) : Len(content.lines[i]) >= 3 }
    IN  IF entries = {} THEN NoResult
        ELSE [s \in { content.lines[i][1] : i \in entries } |->
                [k \in { content.lines[i][2] : i \in { j \in entries : content.lines[j][1] = s } } |->
                    LET i == CHOOSE j \in entries :
                                 /\ content.lines[j][1] = s /\ content.lines[j][2] = k
                                 /\ \A l \in entries :
                                      content.lines[l][1] = s /\ content.lines[l][2] = k => l <= j
                    IN  SubSeq(content.lines[i], 3, Len(content.lines[i]))]]

\* _load_project_config with the configuration file always found: not the program
LoadProjectConfig_Default(fs) ==
    IF ConfigPath \notin DOMAIN fs
    THEN [project |-> [django_app |-> <<"app">>]]
    ELSE YamlLoad(fs[ConfigPath])

\* _load_project_config
LoadProjectConfig(fs) ==
    IF ConfigPath \notin DOMAIN fs THEN NoResult ELSE YamlLoad(fs[ConfigPath])

\* config[section][key] raises KeyError
HasKey(config, section, key) ==
    section \in DOMAIN config /\ key \in DOMAIN config[section]

\* feature_name.rstrip("s")
RECURSIVE RStripS(_)
RStripS(name) ==
    IF name # <<>> /\ name[Len(name)] = "s" THEN RStripS(SubSeq(name, 1, Len(name) - 1))
    ELSE name

\* text.split("_"): the words between the "_" segments
RECURSIVE SplitUnderscore(_, _)
SplitUnderscore(name, word) ==
    IF name = <<>> THEN <<word>>
    ELSE IF name[1] = "_" THEN <<word>> \o SplitUnderscore(Tail(name), <<>>)
    ELSE SplitUnderscore(Tail(name), Append(word, name[1]))

\* str.upper and str.lower of the segments that occur in feature names
UpperFirst(seg) ==
    CASE seg = "user" -> "User" [] seg = "post" -> "Post" [] seg = "blog" -> "Blog"
      [] seg = "s" -> "S" [] OTHER -> seg

\* word.capitalize()
Capitalize(word) == IF word = <<>> THEN <<>> ELSE <<UpperFirst(word[1])>> \o Tail(word)

RECURSIVE JoinWords(_)
JoinWords(words) == IF words = <<>> THEN <<>> ELSE Capitalize(Head(words)) \o JoinWords(Tail(words))

\* _to_pascal_case
ToPascalCase(text) == JoinWords(SplitUnderscore(text, <<>>))

-----------------------------------------------------------------------------
(* APIGenerator.generate_schema and generate_views: the template and the    *)
(* context it is rendered with                                              *)

\* the list comprehension of _get_create_fields and _get_update_fields
RECURSIVE FieldsNotNamed(_, _)
FieldsNotNamed(fields, excluded) ==
    IF fields = <<>> THEN <<>>
    ELSE (IF Head(fields)[<<"name">>] \in excluded THEN <<>> ELSE <<Head(fields)>>)
         \o FieldsNotNamed(Tail(fields), excluded)

\* _get_create_fields
GetCreateFields(fields) ==
    FieldsNotNamed(ConvertModelFields(fields),
                   { PyStr(<<"id">>), PyStr(<<"created_at">>), PyStr(<<"updated_at">>) })

\* _get_update_fields
GetUpdateFields(fields) ==
    FieldsNotNamed(ConvertModelFields(fields), { PyStr(<<"id">>), PyStr(<<"created_at">>) })

\* _has_email_field, _has_url_field
HasFieldOfType(fields, type) ==
    \E i \in 1..Len(fields) : DictGet(fields[i], <<"type">>, PyNone) = PyStr(<<type>>)

\* "op" in operations
InOperations(op, operations) == \E i \in 1..Len(operations) : operations[i] = op

\* generate_schema; KeyError when the configuration lacks a key it reads
GenerateSchema(feature_name, info, operations, config) ==
    IF ~ HasKey(config, "project", "django_app") \/ ~ HasKey(config, "ninja", "camel_case_response")
    THEN [kind |-> "KeyError"]
    ELSE Rendered("django/schema.py.j2",
           [model_name |-> ToPascalCase(RStripS(feature_name)),
            model_description |-> info.description,
            app_name |-> config["project"]["django_app"],
            fields |-> ConvertModelFields(info.fields),
            camel_case_enabled |-> config["ninja"]["camel_case_response"],
            list_schema_needed |-> InOperations("list", operations),
            create_schema_needed |-> InOperations("create", operations),
            update_schema_needed |-> InOperations("update", operations),
            create_fields |-> GetCreateFields(info.fields),
            update_fields |-> GetUpdateFields(info.fields),
            email_field_used |-> HasFieldOfType(info.fields, "EmailField"),
            url_field_used |-> HasFieldOfType(info.fields, "URLField")])

\* generate_views; KeyError when the configuration lacks a key it reads
GenerateViews(feature_name, info, operations, config) ==
    IF ~ HasKey(config, "project", "django_app") \/ ~ HasKey(config, "templates", "default_ordering")
    THEN [kind |-> "KeyError"]
    ELSE Rendered("django/views.py.j2",
           [model_name |-> ToPascalCase(RStripS(feature_name)),
            model_class |-> info.model_class,
            app_name |-> config["project"]["django_app"],
            tag_name |-> feature_name,
            default_ordering |-> config["templates"]["default_ordering"],
            list_enabled |-> InOperations("list", operations),
            retrieve_enabled |-> InOperations("retrieve", operations),
            create_enabled |-> InOperations("create", operations),
            update_enabled |-> InOperations("update", operations),
            delete_enabled |-> InOperations("delete", operations)])

-----------------------------------------------------------------------------
(* _update_main_api_file of the generate command                            *)

\* <app>/apis/ninja
NinjaDir(app_name) == <<app_name, <<"apis">>, <<"ninja">>>>
\* <app>/apis/ninja/api_views/<feature>
FeatureDir(app_name, feature_name) == NinjaDir(app_name) \o <<<<"api_views">>, feature_name>>
\* <app>/apis/ninja/api.py
ApiFile(app_name) == Append(NinjaDir(app_name), <<"api", ".py">>)

\* f"from {app_name}.apis.ninja.api_views.{feature_name}.views import router as {feature_name}_router"
ImportLine(app_name, feature_name) ==
    <<"from", " ">> \o app_name \o <<".apis.ninja.api_views.">> \o feature_name
        \o <<".views", " ", "import router as", " ">> \o feature_name \o <<"_router">>

\* f'api.add_router("", {feature_name}_router)'
RouterLine(feature_name) ==
    <<"api.add_router(", "\"\", ">> \o feature_name \o <<"_router", ")">>

\* `pattern in content` for a pattern without a line break
InContent(pattern, lines) == \E i \in 1..Len(lines) : Contains(lines[i], pattern)

\* lines.insert(index, line), index counted from 0
ListInsert(lines, index, line) ==
    SubSeq(lines, 1, index) \o <<line>> \o SubSeq(lines, index + 1, Len(lines))

\* the loop that looks for the end of the router imports, from lines[i] on
RECURSIVE InsertIndex(_, _, _)
InsertIndex(lines, i, insert_index) ==
    IF i > Len(lines) THEN insert_index
    ELSE IF StartsWith(lines[i], "from") /\ Contains(lines[i], <<"import router as">>)
         THEN InsertIndex(lines, i + 1, i)
         ELSE IF StartsWith(lines[i], "api = NinjaAPI") THEN insert_index
         ELSE InsertIndex(lines, i + 1, insert_index)

\* the lines after the import line was added where it was missing
WithImport(lines, import_line) ==
    IF InContent(import_line, lines) THEN lines
    ELSE ListInsert(lines, InsertIndex(lines, 1, 0), import_line)

\* the router line added at the end whether it is there or not: not the program
WithRouter_Always(lines, router_line) == lines \o << <<>>, router_line >>

\* the lines after the router line was added where it was missing: behind the
\* first line with api.add_router( or, without one, at the end after a blank
WithRouter(lines, router_line) ==
    IF InContent(router_line, lines) THEN lines
    ELSE LET found == { i \in 1..Len(lines) : Contains(lines[i], <<"api.add_router(">>) }
         IN  IF found # {}
             THEN ListInsert(lines, CHOOSE i \in found : \A j \in found : i <= j, router_line)
             ELSE lines \o << <<>>, router_line >>

\* _update_main_api_file: the files after it
UpdateMainApiFile(fs, feature_name, config) ==
    LET api_file == ApiFile(config["project"]["django_app"])
    IN  IF api_file \notin DOMAIN fs THEN fs
        ELSE WriteText(fs, api_file,
               Text(WithRouter(WithImport(Lines(fs[api_file]),
                                          ImportLine(config["project"]["django_app"], feature_name)),
                               RouterLine(feature_name))))

-----------------------------------------------------------------------------
(* Inputs of the generate command: projects and trees as they can be found, *)
(* command lines, and the answers of the user                               *)

MaxRuns == 2

BlogApp == <<"blog">>
Users == <<"user", "s">>
BlogPosts == <<"blog", "_", "post", "s">>
FeatureNames == { Users, BlogPosts }

\* an app with models.py defining Article, and one whose Article is no model
GenEntries ==
    { Entry(TRUE, TRUE, SourceFile(<<"models.py">>, <<ArticleModel>>), NoDir),
      Entry(TRUE, FALSE, SourceFile(<<"models.py">>, <<ArticlePlain, CommentModel>>), NoDir) }

FullConfig ==
    Text(<< <<"project", "django_app">> \o BlogApp,
            <<"ninja", "camel_case_response", "true">>,
            <<"templates", "default_ordering", "-id">> >>)
\* a configuration without the ninja and templates sections
ProjectOnlyConfig == Text(<< <<"project", "django_app">> \o BlogApp >>)
\* a configuration file for another tool: no project section
ForeignConfig == Text(<< <<"tool", "name", "other">> >>)
ConfigFiles == { NoFile, EmptyText, FullConfig, ProjectOnlyConfig, ForeignConfig }

\* api.py with no router registered yet
FreshApi ==
    Text(<< <<"from", " ", "ninja", " ", "import NinjaAPI">>, <<>>,
            <<"api = NinjaAPI", "(", ")">>, <<>> >>)
\* api.py in which the router of users is registered
UsersApi ==
    Text(<< <<"from", " ", "ninja", " ", "import NinjaAPI">>,
            ImportLine(BlogApp, Users), <<>>,
            <<"api = NinjaAPI", "(", ")">>,
            RouterLine(Users), <<>> >>)
ApiFiles == { NoFile, FreshApi, UsersApi }

HandWritten(what) == Text(<< <<"# ", what, " edited by hand">> >>)
\* the files of the feature directory of users: none, all three, schema.py only
FeatureFiles ==
    { <<NoFile, NoFile, NoFile>>,
      <<HandWritten("__init__"), HandWritten("schema"), HandWritten("views")>>,
      <<NoFile, HandWritten("schema"), NoFile>> }

\* the files of a tree from the content of each, NoFile leaving the path out
TreeOf(items) ==
    [p \in { items[i][1] : i \in { i \in 1..Len(items) : items[i][2] # NoFile } } |->
        items[CHOOSE i \in 1..Len(items) : items[i][1] = p][2]]

Tree(config_file, api_file, feature_files) ==
    TreeOf(<< <<ConfigPath, config_file>>,
              <<ApiFile(BlogApp), api_file>>,
              <<Append(FeatureDir(BlogApp, Users), <<"__init__", ".py">>), feature_files[1]>>,
              <<Append(FeatureDir(BlogApp, Users), <<"schema", ".py">>), feature_files[2]>>,
              <<Append(FeatureDir(BlogApp, Users), <<"views", ".py">>), feature_files[3]>> >>)

\* the directories above the files of a tree
DirsOf(fs) == UNION { MkdirParents({}, Parent(p)) : p \in DOMAIN fs }

\* the answers of questionary.checkbox(...).ask(): None when cancelled
PyList(items) == [kind |-> "list", items |-> items]
CheckboxAnswers == { NoResult, PyList(<<>>), PyList(<<"list", "create">>) }
\* the --operations/-o options of the command line
OperationOptions == { <<>>, <<"list", "create">> }

NoRun == [cmd |-> "none"]

-----------------------------------------------------------------------------
(* Specification of the generate command *)

InitGenerate ==
    /\ \/ /\ project \in SeqUpTo(GenEntries, MaxApps)
          /\ files = Tree(FullConfig, FreshApi, <<NoFile, NoFile, NoFile>>)
       \/ /\ project = << CHOOSE e \in GenEntries : e.apps_py >>
          /\ files \in { Tree(c, FreshApi, <<NoFile, NoFile, NoFile>>) : c \in ConfigFiles }
                       \cup { Tree(c, a, f) : c \in {NoFile, FullConfig},
                                               a \in ApiFiles, f \in FeatureFiles }
    /\ dirs = DirsOf(files)
    /\ run = NoRun
    /\ runs = 0
    /\ pc = "idle"
    /\ model_name = Unused /\ analyze_result = Unused
    /\ ParseIdle /\ DrfIdle /\ ActionsIdle /\ ConvertIdle

genFrame == <<project, model_name, analyze_result, parseVars, drfVars, actionVars, convertVars>>

\* the command returns or is ended by an exception
EndRun(outcome) ==
    /\ run' = [run EXCEPT !.outcome = outcome]
    /\ pc' = "idle"

\* generate_command is entered with the options of the command line
GenerateCommand ==
    /\ pc = "idle"
    /\ runs < MaxRuns
    /\ \E feature_name \in FeatureNames, model \in ModelNames,
          operations \in OperationOptions, interactive \in BOOLEAN, force \in BOOLEAN :
         run' = [cmd |-> "generate", feature_name |-> feature_name, model |-> model,
                 operations |-> operations, interactive |-> interactive, force |-> force,
                 model_info |-> NoResult, config |-> NoResult, outcome |-> "running",
                 schema_answer |-> "not asked", views_answer |-> "not asked",
                 before |-> [files |-> files, dirs |-> dirs]]
    /\ runs' = runs + 1
    /\ pc' = "analyze_model"
    /\ UNCHANGED <<fsVars, genFrame>>

\* try: model_info = analyzer.analyze_model(model)  except Exception: return
GenerateAnalyzeModel ==
    /\ pc = "analyze_model"
    /\ LET info == AnalyzeModelResult(project, run.model)
       IN  IF info.kind = "ValueError"
           THEN EndRun("model_not_found")
           ELSE /\ run' = [run EXCEPT !.model_info = info]
                /\ pc' = "select_operations"
    /\ UNCHANGED <<fsVars, runs, genFrame>>

\* _select_operations
SelectOperations(answer) ==
    IF answer = NoResult \/ answer.items = <<>>
    THEN <<"list", "retrieve", "create", "update">>
    ELSE answer.items

\* the selection of the operations
GenerateSelectOperations ==
    /\ pc = "select_operations"
    /\ IF run.interactive /\ run.operations = <<>>
       THEN \E answer \in CheckboxAnswers :
                run' = [run EXCEPT !.operations = SelectOperations(answer)]
       ELSE IF run.operations = <<>>
       THEN run' = [run EXCEPT !.operations = <<"list", "retrieve", "create", "update", "delete">>]
       ELSE run' = run
    /\ pc' = "load_config"
    /\ UNCHANGED <<fsVars, runs, genFrame>>


\* config = _load_project_config(current_dir); if not config: return
GenerateLoadConfig ==
    /\ pc = "load_config"
    /\ LET config == LoadProjectConfig(files)
       IN  IF config = NoResult
           THEN EndRun("not_initialized")
           ELSE /\ run' = [run EXCEPT !.config = config]
                /\ pc' = "make_directory"
    /\ UNCHANGED <<fsVars, runs, genFrame>>

\* _generate_api_feature up to the first progress update: app_name is read
\* from the configuration, then the feature directory and its __init__.py
\* are made
GenerateMakeDirectory ==
    /\ pc = "make_directory"
    /\ IF ~ HasKey(run.config, "project", "django_app")
       THEN /\ EndRun("KeyError")
            /\ UNCHANGED fsVars
       ELSE LET feature_dir == FeatureDir(run.config["project"]["django_app"], run.feature_name)
            IN  /\ dirs' = MkdirParents(dirs, feature_dir)
                /\ files' = WriteText(files, Append(feature_dir, <<"__init__", ".py">>), EmptyText)
                /\ pc' = "schema"
                /\ run' = run
    /\ UNCHANGED <<runs, genFrame>>

\* what the user was asked about one generated file: the confirmation is
\* asked for only when the file exists and --force is not given
Answer(path, confirmed) ==
    IF path \in DOMAIN files /\ ~ run.force
    THEN (IF confirmed THEN "yes" ELSE "no")
    ELSE "not asked"

\* one generated file written whatever the user answers: not the program
WriteGenerated_Always(path, content, confirmed) ==
    /\ files' = WriteFile(files, dirs, path, content)[1]
    /\ dirs' = WriteFile(files, dirs, path, content)[2]

\* one generated file: written when it does not exist, when --force is given
\* or when questionary.confirm(...).ask() is answered with yes
WriteGenerated(path, content, confirmed) ==
    IF path \in DOMAIN files /\ ~ run.force /\ ~ confirmed
    THEN UNCHANGED fsVars
    ELSE /\ files' = WriteFile(files, dirs, path, content)[1]
         /\ dirs' = WriteFile(files, dirs, path, content)[2]

\* the schema file of _generate_api_feature
GenerateSchemaFile ==
    /\ pc = "schema"
    /\ LET schema_content == GenerateSchema(run.feature_name, run.model_info,
                                            run.operations, run.config)
           schema_path == Append(FeatureDir(run.config["project"]["django_app"],
                                            run.feature_name), <<"schema", ".py">>)
       IN  IF schema_content.kind = "KeyError"
           THEN /\ EndRun("KeyError")
                /\ UNCHANGED fsVars
           ELSE /\ \E confirmed \in BOOLEAN :
                     /\ WriteGenerated(schema_path, schema_content, confirmed)
                     /\ run' = [run EXCEPT !.schema_answer = Answer(schema_path, confirmed)]
                /\ pc' = "views"
    /\ UNCHANGED <<runs, genFrame>>

\* the views file of _generate_api_feature
GenerateViewsFile ==
    /\ pc = "views"
    /\ LET views_content == GenerateViews(run.feature_name, run.model_info,
                                          run.operations, run.config)
           views_path == Append(FeatureDir(run.config["project"]["django_app"],
                                           run.feature_name), <<"views", ".py">>)
       IN  IF views_content.kind = "KeyError"
           THEN /\ EndRun("KeyError")
                /\ UNCHANGED fsVars
           ELSE /\ \E confirmed \in BOOLEAN :
                     /\ WriteGenerated(views_path, views_content, confirmed)
                     /\ run' = [run EXCEPT !.views_answer = Answer(views_path, confirmed)]
                /\ pc' = "update_api"
    /\ UNCHANGED <<runs, genFrame>>

\* _update_main_api_file, and the return of generate_command
GenerateUpdateMainApiFile ==
    /\ pc = "update_api"
    /\ files' = UpdateMainApiFile(files, run.feature_name, run.config)
    /\ EndRun("completed")
    /\ UNCHANGED <<dirs, runs, genFrame>>

NextGenerate ==
    \/ GenerateCommand
    \/ GenerateAnalyzeModel
    \/ GenerateSelectOperations
    \/ GenerateLoadConfig
    \/ GenerateMakeDirectory
    \/ GenerateSchemaFile
    \/ GenerateViewsFile
    \/ GenerateUpdateMainApiFile

SpecGenerate == InitGenerate /\ [][NextGenerate]_vars

-----------------------------------------------------------------------------
(* Claim about the generate command (checked under SpecGenerate) *)

\* the run that is going on, or the last one, is a run of generate in which
\* the model is not found or the configuration file is absent
RunWithoutModelOrConfig ==
    /\ run.cmd = "generate"
    /\ \/ FindModel(project, 1, run.model) = NoResult
       \/ ConfigPath \notin DOMAIN run.before.files

\* C10: a run of generate whose model is not found, or that finds no
\* configuration file in the current directory, creates and modifies no file
\* and no directory: at every step of it the tree is the one it started with
C10_NoWriteWithoutModelOrConfig ==
    RunWithoutModelOrConfig => files = run.before.files /\ dirs = run.before.dirs

\* a run has returned because the configuration file is absent, the model
\* having been found, in a tree in which the feature directory does not exist
C10_Witness ==
    /\ pc = "idle"
    /\ run.cmd = "generate"
    /\ run.outcome = "not_initialized"
    /\ run.model_info # NoResult
    /\ ConfigPath \notin DOMAIN run.before.files
    /\ FeatureDir(BlogApp, run.feature_name) \notin dirs

-----------------------------------------------------------------------------
(* Claims about the files of the feature directory (checked under           *)
(* SpecGenerate)                                                            *)

\* a run of generate has gone through _generate_api_feature and returned
GenerateCompleted == run.cmd = "generate" /\ run.outcome = "completed"

\* the path of a file of the feature directory of the run
FeatureFile(name) ==
    Append(FeatureDir(run.config["project"]["django_app"], run.feature_name), name)

\* the file's path, the answer given for it and the content generated for it
SchemaCase ==
    [path |-> FeatureFile(<<"schema", ".py">>), answer |-> run.schema_answer,
     content |-> GenerateSchema(run.feature_name, run.model_info, run.operations, run.config)]
ViewsCase ==
    [path |-> FeatureFile(<<"views", ".py">>), answer |-> run.views_answer,
     content |-> GenerateViews(run.feature_name, run.model_info, run.operations, run.config)]

\* the file is as C11 says after the run: generated when it did not exist,
\* when --force was given or when the user said yes for this file, and as it
\* was before when the user declined for this file
DecidedByOwnAnswer(case) ==
    IF case.path \notin DOMAIN run.before.files
    THEN files[case.path] = case.content
    ELSE IF run.force \/ case.answer = "yes"
    THEN files[case.path] = case.content
    ELSE /\ case.answer = "no"
         /\ files[case.path] = run.before.files[case.path]

\* C11: in generate an existing schema.py or views.py is overwritten only if
\* --force is given or the user confirms for that file, keeps its content when
\* the user declines, each file following its own answer; a file that does
\* not exist yet is always written
C11_OverwriteOnlyForcedOrConfirmed ==
    GenerateCompleted => DecidedByOwnAnswer(SchemaCase) /\ DecidedByOwnAnswer(ViewsCase)

\* a run without --force in which the user declined for schema.py and
\* confirmed for views.py: schema.py is as before, views.py is the generated one
C11_Witness ==
    /\ GenerateCompleted
    /\ ~ run.force
    /\ run.schema_answer = "no" /\ run.views_answer = "yes"
    /\ files[SchemaCase.path] = run.before.files[SchemaCase.path]
    /\ files[ViewsCase.path] = ViewsCase.content
    /\ files[ViewsCase.path] # run.before.files[ViewsCase.path]


\* a run of generate has ended, without --force and without a yes to any
\* overwrite confirmation
DeclinedRun ==
    /\ run.cmd = "generate"
    /\ run.outcome # "running"
    /\ ~ run.force
    /\ run.schema_answer # "yes" /\ run.views_answer # "yes"

\* C12: after a run of generate without --force in which the user declined
\* every overwrite confirmation, every file that already existed in the
\* feature directory (schema.py, views.py, __init__.py) has the content it had
\* before the run
C12_DeclinedRunKeepsFeatureFiles ==
    DeclinedRun =>
        \A p \in DOMAIN run.before.files :
            Parent(p) = FeatureDir(BlogApp, run.feature_name) =>
                p \in DOMAIN files /\ files[p] = run.before.files[p]

-----------------------------------------------------------------------------
(* _update_main_api_file of the migrate command, and the specification of   *)
(* router registration: calls of either implementation on one api.py        *)

\* migrate's _update_main_api_file: the files after it.  The import line is
\* put in front of the content, the router line behind it
MigrateUpdateMainApiFile(fs, feature_name, config) ==
    LET api_file == ApiFile(config["project"]["django_app"])
        import_line == ImportLine(config["project"]["django_app"], feature_name)
        router_line == RouterLine(feature_name)
        with_import == IF InContent(import_line, Lines(fs[api_file]))
                       THEN Lines(fs[api_file])
                       ELSE <<import_line>> \o Lines(fs[api_file])
        with_router == IF InContent(router_line, with_import)
                       THEN with_import
                       ELSE Append(with_import, router_line)
    IN  IF api_file \notin DOMAIN fs THEN fs
        ELSE WriteText(fs, api_file, Text(with_router))

MaxCalls == 3

User == <<"user">>
\* api.py with the import of users commented out and a router under a prefix
CommentedApi ==
    Text(<< <<"# ">> \o ImportLine(BlogApp, Users),
            <<"from", " ", "ninja", " ", "import NinjaAPI">>,
            <<"api = NinjaAPI", "(", ")">>,
            <<"api.add_router(", "\"/v1/\", ", "legacy", "_router", ")">> >>)
\* api.py that opens with a comment on how routers are registered, and has
\* the router of blog_posts registered
DocumentedApi ==
    Text(<< <<"# ", "routers are added with ", "api.add_router(", "prefix, router", ")">>,
            <<"from", " ", "ninja", " ", "import NinjaAPI">>,
            ImportLine(BlogApp, BlogPosts),
            <<"api = NinjaAPI", "(", ")">>,
            RouterLine(BlogPosts) >>)
RouterApiFiles == { NoFile, EmptyText, FreshApi, UsersApi, CommentedApi, DocumentedApi }
RouterFeatures == { User, Users, BlogPosts }

InitRouter ==
    /\ files \in { Tree(FullConfig, a, <<NoFile, NoFile, NoFile>>) : a \in RouterApiFiles }
    /\ dirs = DirsOf(files)
    /\ run = [cmd |-> "none", registered |-> {}]
    /\ runs = 0
    /\ pc = "idle"
    /\ ParseIdle /\ FindIdle /\ DrfIdle /\ ActionsIdle /\ ConvertIdle

\* what a call of _update_main_api_file leaves behind, next to the files
RegisterCall(impl, feature_name) ==
    /\ run' = [cmd |-> "register", impl |-> impl, feature_name |-> feature_name,
               before |-> files, called_before |-> feature_name \in run.registered,
               registered |-> run.registered \cup {feature_name}]
    /\ runs' = runs + 1
    /\ UNCHANGED <<dirs, pc, genFrame>>

\* generate's _update_main_api_file(project_dir, feature_name, config, force)
GenerateRegisterRouter ==
    /\ runs < MaxCalls
    /\ \E feature_name \in RouterFeatures :
         /\ files' = UpdateMainApiFile(files, feature_name, YamlLoad(files[ConfigPath]))
         /\ RegisterCall("generate", feature_name)

\* migrate's _update_main_api_file(project_dir, feature_name, config)
MigrateRegisterRouter ==
    /\ runs < MaxCalls
    /\ \E feature_name \in RouterFeatures :
         /\ files' = MigrateUpdateMainApiFile(files, feature_name, YamlLoad(files[ConfigPath]))
         /\ RegisterCall("migrate", feature_name)

NextRouter == GenerateRegisterRouter \/ MigrateRegisterRouter

SpecRouter == InitRouter /\ [][NextRouter]_vars

-----------------------------------------------------------------------------
(* Claim about router registration (checked under SpecRouter) *)

\* how often a line occurs in a text: the places of the lines where it starts
Occurrences(pattern, lines) ==
    Cardinality(UNION { { <<i, k>> : k \in { k \in 0..Len(lines[i]) :
                                               /\ k + Len(pattern) <= Len(lines[i])
                                               /\ \A j \in 1..Len(pattern) :
                                                     lines[i][k + j] = pattern[j] } } :
                        i \in 1..Len(lines) })

ApiLines == files[ApiFile(BlogApp)].lines

\* C13: with api.py existing, after a call of either _update_main_api_file
\* for feature f api.py contains f's import line and f's api.add_router line;
\* a call for a feature that was called before leaves api.py as it was; and
\* the import line and the router line of every feature called so far occur
\* exactly once
C13_RegistrationIdempotent ==
    (run.cmd = "register" /\ ApiFile(BlogApp) \in DOMAIN files) =>
        /\ InContent(ImportLine(BlogApp, run.feature_name), ApiLines)
        /\ InContent(RouterLine(run.feature_name), ApiLines)
        /\ (run.called_before => files = run.before)
        /\ \A f \in run.registered :
              /\ Occurrences(ImportLine(BlogApp, f), ApiLines) = 1
              /\ Occurrences(RouterLine(f), ApiLines) = 1

\* users was registered by generate, blog_posts by migrate, and then users
\* again by migrate, which left api.py as it was
C13_Witness ==
    /\ run.cmd = "register" /\ runs = 3
    /\ run.impl = "migrate" /\ run.feature_name = Users /\ run.called_before
    /\ run.registered = { Users, BlogPosts }
    /\ ApiFile(BlogApp) \in DOMAIN files
    /\ files = run.before
    /\ files # Tree(FullConfig, UsersApi, <<NoFile, NoFile, NoFile>>)
    /\ Occurrences(RouterLine(BlogPosts), ApiLines) = 1

-----------------------------------------------------------------------------
(* The init command: the configuration it collects and the files it writes. *)
(* A configuration value is kept as the tokens of its YAML scalar.          *)

YamlTrue == <<"true">>
YamlFalse == <<"false">>
YamlNull == <<"null">>

DEFAULT_CONFIG ==
    [project |-> [name |-> <<"''">>, django_app |-> <<"main">>, api_prefix |-> <<"/api/v1">>,
                  api_version |-> <<"1.0.0">>, api_description |-> <<"Generated API">>],
     ninja |-> [auth_enabled |-> YamlFalse, auth_class |-> <<"JWTAuth">>,
                camel_case_response |-> YamlTrue, auto_openapi |-> YamlTrue],
     orval |-> [output_path |-> <<"./frontend/api/client">>, client_type |-> <<"fetch">>,
                split_mode |-> <<"tags-split">>, mutator_name |-> <<"customFetch">>,
                ts_schemas_dir |-> <<"frontend/api/schema">>,
                composables_dir |-> <<"frontend/composables">>],
     frontend |-> [framework |-> <<"vue">>, typescript |-> YamlTrue, composition_api |-> YamlTrue],
     templates |-> [pagination_limit |-> <<"20">>, max_page_size |-> <<"100">>,
                    default_ordering |-> <<"-id">>, include_tests |-> YamlTrue]]

\* _collect_configuration; answers holds what the user answers to the
\* questions that are asked
CollectConfiguration(name, app, frontend, interactive, answers) ==
    LET named == [DEFAULT_CONFIG EXCEPT !["project"]["name"] = name,
                                        !["project"]["django_app"] = app]
        selected == IF frontend = YamlNull THEN answers.frontend ELSE frontend
        with_frontend == [named EXCEPT !["frontend"]["framework"] = selected]
        with_typescript ==
            IF selected # <<"none">>
            THEN [with_frontend EXCEPT !["frontend"]["typescript"] = answers.use_typescript]
            ELSE with_frontend
        with_auth == [with_typescript EXCEPT !["ninja"]["auth_enabled"] = answers.use_auth]
        with_auth_class ==
            IF answers.use_auth = YamlTrue
            THEN [with_auth EXCEPT !["ninja"]["auth_class"] = answers.auth_type]
            ELSE with_auth
    IN  IF interactive
        THEN [with_auth_class EXCEPT !["ninja"]["camel_case_response"] = answers.use_camel_case]
        ELSE [named EXCEPT !["frontend"]["framework"] =
                             IF frontend = YamlNull THEN <<"vue">> ELSE frontend]

\* the keys of a configuration in the order yaml.dump writes them: sections
\* and keys sorted
ConfigKeyOrder ==
    << <<"frontend", "composition_api">>, <<"frontend", "framework">>, <<"frontend", "typescript">>,
       <<"ninja", "auth_class">>, <<"ninja", "auth_enabled">>, <<"ninja", "auto_openapi">>,
       <<"ninja", "camel_case_response">>,
       <<"orval", "client_type">>, <<"orval", "composables_dir">>, <<"orval", "mutator_name">>,
       <<"orval", "output_path">>, <<"orval", "split_mode">>, <<"orval", "ts_schemas_dir">>,
       <<"project", "api_description">>, <<"project", "api_prefix">>, <<"project", "api_version">>,
       <<"project", "django_app">>, <<"project", "name">>,
       <<"templates", "default_ordering">>, <<"templates", "include_tests">>,
       <<"templates", "max_page_size">>, <<"templates", "pagination_limit">> >>

\* yaml.dump(config, f): one line `section key value...` for each entry
YamlDump(config) ==
    Text([i \in 1..Len(ConfigKeyOrder) |->
            ConfigKeyOrder[i] \o config[ConfigKeyOrder[i][1]][ConfigKeyOrder[i][2]]])

\* _create_config_file
CreateConfigFile(fs, config) == WriteText(fs, ConfigPath, YamlDump(config))

\* the directories of _create_directory_structure, in the order of the list,
\* and whether "apis" is in their name
StructureDirectories(app_name) ==
    << [path |-> Append(NinjaDir(app_name), <<"api_views">>), apis |-> TRUE],
       [path |-> Append(NinjaDir(app_name), <<"openapi">>), apis |-> TRUE],
       [path |-> Append(NinjaDir(app_name), <<"shared">>), apis |-> TRUE],
       [path |-> << <<"frontend">>, <<"api">>, <<"client">> >>, apis |-> FALSE],
       [path |-> << <<"frontend">>, <<"api">>, <<"schema">> >>, apis |-> FALSE],
       [path |-> << <<"frontend">>, <<"composables">> >>, apis |-> FALSE],
       [path |-> << <<"frontend">>, <<"components">> >>, apis |-> FALSE] >>

\* _create_directory_structure from the i-th directory on: the tree after it,
\* as <<files, dirs>>
RECURSIVE CreateDirectoryStructure(_, _, _, _)
CreateDirectoryStructure(fs, ds, directories, i) ==
    IF i > Len(directories) THEN <<fs, ds>>
    ELSE LET init_file == Append(directories[i].path, <<"__init__", ".py">>)
         IN  CreateDirectoryStructure(
                 IF directories[i].apis /\ init_file \notin DOMAIN fs
                 THEN WriteText(fs, init_file, EmptyText) ELSE fs,
                 MkdirParents(ds, directories[i].path), directories, i + 1)


\* generate_base_api
GenerateBaseApi(config) ==
    Rendered("django/api.py.j2",
        [project_name |-> config["project"]["name"],
         api_version |-> config["project"]["api_version"],
         api_description |-> config["project"]["api_description"],
         app_name |-> config["project"]["django_app"],
         auth_enabled |-> config["ninja"]["auth_enabled"],
         auth_class |-> config["ninja"]["auth_class"],
         features |-> IF "features" \in DOMAIN config THEN config["features"] ELSE <<>>])

\* generate_base_schemas
GenerateBaseSchemas(config) ==
    Rendered("django/base_schemas.py.j2",
        [app_name |-> config["project"]["django_app"],
         default_page_size |-> config["templates"]["pagination_limit"],
         max_page_size |-> config["templates"]["max_page_size"],
         camel_case_enabled |-> config["ninja"]["camel_case_response"]])

\* generate_pagination_utils
GeneratePaginationUtils(config) ==
    Rendered("django/shared/pagination_utils.py.j2",
        [app_name |-> config["project"]["django_app"],
         max_page_size |-> config["templates"]["max_page_size"],
         camel_case_enabled |-> config["ninja"]["camel_case_response"]])

\* generate_orval_config
GenerateOrvalConfig(config) ==
    Rendered("typescript/orval.config.ts.j2",
        [openapi_path |-> <<"./">> \o config["project"]["django_app"]
                              \o <<"/apis/ninja/openapi/ninja_api_schema.json">>,
         output_path |-> config["orval"]["output_path"],
         client_type |-> config["orval"]["client_type"],
         split_mode |-> config["orval"]["split_mode"],
         mutator_name |-> config["orval"]["mutator_name"],
         ts_schemas_path |-> config["orval"]["ts_schemas_dir"]])

\* generate_fetch_wrapper
GenerateFetchWrapper(config) ==
    Rendered("typescript/fetch_wrapper.ts.j2",
        [project_name |-> config["project"]["name"],
         mutator_name |-> config["orval"]["mutator_name"],
         auth_enabled |-> config["ninja"]["auth_enabled"],
         auth_scheme |-> IF config["ninja"]["auth_class"] = <<"JWTAuth">>
                         THEN "Bearer" ELSE "Token"])

\* write_file for each <<path, content>> of a list in turn: the tree after
\* them, as <<files, dirs>>
RECURSIVE WriteFiles(_, _, _)
WriteFiles(fs, ds, writes) ==
    IF writes = <<>> THEN <<fs, ds>>
    ELSE LET written == WriteFile(fs, ds, Head(writes)[1], Head(writes)[2])
         IN  WriteFiles(written[1], written[2], Tail(writes))

\* _generate_initial_files: the tree after it
GenerateInitialFiles(fs, ds, config) ==
    LET base_dir == NinjaDir(config["project"]["django_app"])
    IN  WriteFiles(fs, ds,
          << <<Append(base_dir, <<"api", ".py">>), GenerateBaseApi(config)>>,
             <<Append(base_dir, <<"base_schemas", ".py">>), GenerateBaseSchemas(config)>>,
             <<base_dir \o << <<"shared">>, <<"pagination_utils", ".py">> >>,
               GeneratePaginationUtils(config)>> >>)

\* _setup_frontend: the tree after it
SetupFrontend(fs, ds, config) ==
    WriteFiles(fs, ds,
      << << << <<"orval", ".config", ".ts">> >>, GenerateOrvalConfig(config)>>,
         << << <<"frontend">>, <<"api">>, <<"client">>, <<"fetchWrapper", ".ts">> >>,
            GenerateFetchWrapper(config)>> >>)

-----------------------------------------------------------------------------
(* Inputs and specification of the init command *)

\* what the user answers to the questions of _collect_configuration
InitAnswers ==
    { [frontend |-> <<"none">>, use_typescript |-> YamlTrue, use_auth |-> YamlFalse,
       auth_type |-> <<"JWTAuth">>, use_camel_case |-> YamlTrue],
      [frontend |-> <<"react">>, use_typescript |-> YamlFalse, use_auth |-> YamlTrue,
       auth_type |-> <<"SessionAuth">>, use_camel_case |-> YamlFalse],
      [frontend |-> YamlNull, use_typescript |-> YamlNull, use_auth |-> YamlNull,
       auth_type |-> YamlNull, use_camel_case |-> YamlNull] }
\* the --frontend option: not given, or one of SUPPORTED_FRAMEWORKS
FrontendOptions == { YamlNull, <<"vue">>, <<"none">> }
AppOptions == { BlogApp, <<"main">> }

InitInit ==
    /\ files \in { Tree(c, a, f) : c \in {NoFile, FullConfig}, a \in {NoFile, UsersApi},
                                   f \in { <<NoFile, NoFile, NoFile>>,
                                           <<HandWritten("__init__"), HandWritten("schema"),
                                             HandWritten("views")>> } }
    /\ dirs = DirsOf(files)
    /\ run = NoRun
    /\ runs = 0
    /\ pc = "idle"
    /\ ParseIdle /\ FindIdle /\ DrfIdle /\ ActionsIdle /\ ConvertIdle

\* init_command is entered with the options of the command line
InitCommand ==
    /\ pc = "idle"
    /\ runs < MaxRuns
    /\ \E app \in AppOptions, frontend \in FrontendOptions,
          interactive \in BOOLEAN, force \in BOOLEAN :
         run' = [cmd |-> "init", name |-> <<"shop">>, app |-> app, frontend |-> frontend,
                 interactive |-> interactive, force |-> force,
                 config |-> NoResult, overwrite_answer |-> "not asked", outcome |-> "running",
                 before |-> [files |-> files, dirs |-> dirs]]
    /\ runs' = runs + 1
    /\ pc' = "existing_config"
    /\ UNCHANGED <<fsVars, genFrame>>

\* the confirmation asked for but init going on whatever the answer: not the
\* program
InitConfirmOverwrite_GoesOn ==
    /\ pc = "existing_config"
    /\ \E confirmed \in BOOLEAN :
         run' = [run EXCEPT !.overwrite_answer =
                    IF ConfigPath \in DOMAIN files /\ ~ run.force
                    THEN (IF confirmed THEN "yes" ELSE "no") ELSE "not asked"]
    /\ pc' = "collect_configuration"
    /\ UNCHANGED <<fsVars, runs, genFrame>>

\* the test for an existing configuration file and the confirmation
InitConfirmOverwrite ==
    /\ pc = "existing_config"
    /\ IF ConfigPath \in DOMAIN files /\ ~ run.force
       THEN \E confirmed \in BOOLEAN :
              IF confirmed
              THEN /\ run' = [run EXCEPT !.overwrite_answer = "yes"]
                   /\ pc' = "collect_configuration"
              ELSE /\ run' = [run EXCEPT !.overwrite_answer = "no", !.outcome = "cancelled"]
                   /\ pc' = "idle"
       ELSE /\ run' = run
            /\ pc' = "collect_configuration"
    /\ UNCHANGED <<fsVars, runs, genFrame>>

\* config = _collect_configuration(name, app, frontend, interactive)
InitCollectConfiguration ==
    /\ pc = "collect_configuration"
    /\ \E answers \in InitAnswers :
         run' = [run EXCEPT !.config = CollectConfiguration(run.name, run.app, run.frontend,
                                                            run.interactive, answers)]
    /\ pc' = "create_config_file"
    /\ UNCHANGED <<fsVars, runs, genFrame>>

\* _create_config_file(config_path, config)
InitCreateConfigFile ==
    /\ pc = "create_config_file"
    /\ files' = CreateConfigFile(files, run.config)
    /\ pc' = "create_directories"
    /\ UNCHANGED <<dirs, run, runs, genFrame>>

\* _create_directory_structure(current_dir, config)
InitCreateDirectoryStructure ==
    /\ pc = "create_directories"
    /\ LET created == CreateDirectoryStructure(files, dirs,
                          StructureDirectories(run.config["project"]["django_app"]), 1)
       IN  files' = created[1] /\ dirs' = created[2]
    /\ pc' = "generate_initial_files"
    /\ UNCHANGED <<run, runs, genFrame>>

\* _generate_initial_files(current_dir, config)
InitGenerateInitialFiles ==
    /\ pc = "generate_initial_files"
    /\ LET written == GenerateInitialFiles(files, dirs, run.config)
       IN  files' = written[1] /\ dirs' = written[2]
    /\ pc' = "setup_frontend"
    /\ UNCHANGED <<run, runs, genFrame>>

\* _setup_frontend when a framework is configured, and the return
InitSetupFrontend ==
    /\ pc = "setup_frontend"
    /\ LET written == IF run.config["frontend"]["framework"] # <<"none">>
                      THEN SetupFrontend(files, dirs, run.config)
                      ELSE <<files, dirs>>
       IN  files' = written[1] /\ dirs' = written[2]
    /\ EndRun("completed")
    /\ UNCHANGED <<runs, genFrame>>

NextInit ==
    \/ InitCommand
    \/ InitConfirmOverwrite
    \/ InitCollectConfiguration
    \/ InitCreateConfigFile
    \/ InitCreateDirectoryStructure
    \/ InitGenerateInitialFiles
    \/ InitSetupFrontend

SpecInit == InitInit /\ [][NextInit]_vars


-----------------------------------------------------------------------------
(* Claim about the init command (checked under SpecInit) *)

\* C14: init overwrites an existing .ninja-orval-forge.yml only if --force is
\* given or the user confirms; when the file exists, --force is absent and the
\* user declines, the run changes nothing: files and directories stay as they
\* were before it
C14_InitOverwriteOnlyForcedOrConfirmed ==
    (run.cmd = "init" /\ ConfigPath \in DOMAIN run.before.files) =>
        /\ (files[ConfigPath] # run.before.files[ConfigPath] =>
                run.force \/ run.overwrite_answer = "yes")
        /\ (~ run.force /\ run.overwrite_answer = "no" =>
                files = run.before.files /\ dirs = run.before.dirs)

\* a second run of init, without --force, that the user declined: the
\* configuration and the files written by the first run are as they were
C14_Witness ==
    /\ run.cmd = "init" /\ runs = 2 /\ pc = "idle"
    /\ ~ run.force /\ run.overwrite_answer = "no" /\ run.outcome = "cancelled"
    /\ ConfigPath \in DOMAIN run.before.files
    /\ run.before.files[ConfigPath] # FullConfig
    /\ files = run.before.files /\ dirs = run.before.dirs

-----------------------------------------------------------------------------
(* The migrate command.  The DRF sources of an application are files of the *)
(* tree: <app>/serializers.py and <app>/views.py hold SourceFile or         *)
(* BrokenFile records.                                                      *)

\* convert_serializer_to_schema: its body is `pass`
ConvertSerializerToSchema(serializer_info, config) == NoResult

\* convert_viewset_to_views: its body is `pass`
ConvertViewsetToViews(viewset_info, config) == NoResult

\* the file at a path, NoFile when there is none
FileAt(fs, path) == IF path \in DOMAIN fs THEN fs[path] ELSE NoFile

\* what DRFAnalyzer(app_path) finds in the tree
AppDirOf(fs, app) ==
    [serializers_py |-> FileAt(fs, <<app, <<"serializers", ".py">>>>),
     views_py |-> FileAt(fs, <<app, <<"views", ".py">>>>)]

\* name.lower() and inflect's plural of the class names that occur
LowerPlural(name) ==
    CASE name = <<"User">> -> <<"user", "s">>
      [] name = <<"Post">> -> <<"post", "s">>
      [] name = <<"Blog", "Post">> -> <<"blogpost", "s">>
      [] name = <<>> -> <<>>
      [] OTHER -> <<"a", "s">>

\* _extract_feature_name: the first of the suffixes Serializer, ViewSet, View
\* the class name ends with is cut off
ExtractFeatureName(class_name) ==
    LET last == IF class_name = <<>> THEN "" ELSE class_name[Len(class_name)]
    IN  LowerPlural(IF last \in {"Serializer", "ViewSet", "View"}
                    THEN SubSeq(class_name, 1, Len(class_name) - 1)
                    ELSE class_name)

\* whether path lies below directory
Below(path, directory) ==
    Len(path) > Len(directory) /\ SubSeq(path, 1, Len(directory)) = directory

\* f"backup_drf_migration_{timestamp}"
BackupDir(timestamp) == << <<"backup_drf_migration_", timestamp>> >>

\* _create_backup that copies nothing: not the program
CreateBackup_Nothing(fs, ds, app_name, timestamp) == <<fs, ds>>

\* _create_backup: shutil.copytree(app_source, backup_dir / app_name), the
\* tree after it as <<files, dirs>>
CreateBackup(fs, ds, app_name, timestamp) ==
    IF <<app_name>> \notin ds THEN <<fs, ds>>
    ELSE LET copy(p) == BackupDir(timestamp) \o p
             copied == { p \in DOMAIN fs : Below(p, <<app_name>>) }
         IN  << [q \in DOMAIN fs \cup { copy(p) : p \in copied } |->
                    IF q \in DOMAIN fs THEN fs[q]
                    ELSE fs[SubSeq(q, 2, Len(q))]],
                ds \cup { BackupDir(timestamp) }
                   \cup { copy(d) : d \in { d \in ds : d = <<app_name>> \/ Below(d, <<app_name>>) } } >>


\* the readings of datetime.now() the runs can get, in the order of time
Timestamps == <<"20240101_120000", "20240101_120001">>

ShopApp == <<"shop">>
\* --app/-a: the application of the tree, and one that is not there
MigrateApps == { BlogApp, ShopApp }

UserViewSet ==
    ClassDef(<<"User", "ViewSet">>,
             <<Attribute(Name(<<"viewsets">>), <<"Model", "ViewSet">>)>>, <<>>)

SerializersPath(app) == <<app, <<"serializers", ".py">>>>
ViewsPath(app) == <<app, <<"views", ".py">>>>
UsersSchemaPath == Append(FeatureDir(BlogApp, Users), <<"schema", ".py">>)
UsersViewsPath == Append(FeatureDir(BlogApp, Users), <<"views", ".py">>)

MigrateTree(config_file, api_file, serializers_py, views_py, schema_py) ==
    TreeOf(<< <<ConfigPath, config_file>>,
              <<ApiFile(BlogApp), api_file>>,
              <<SerializersPath(BlogApp), serializers_py>>,
              <<ViewsPath(BlogApp), views_py>>,
              <<UsersSchemaPath, schema_py>> >>)

InitMigrate ==
    /\ files \in { MigrateTree(c, a, s, v, f) :
                     c \in { NoFile, FullConfig, ForeignConfig },
                     a \in { NoFile, FreshApi },
                     s \in { NoFile, BrokenFile(<<"serializers.py">>),
                             SourceFile(<<"serializers.py">>, <<UserSerializer>>) },
                     v \in { NoFile, SourceFile(<<"views.py">>, <<UserViewSet>>) },
                     f \in { NoFile, HandWritten("schema") } }
    /\ dirs = DirsOf(files) \cup { <<BlogApp>> }
    /\ run = NoRun
    /\ runs = 0
    /\ pc = "idle"
    /\ ParseIdle /\ FindIdle /\ DrfIdle /\ ActionsIdle /\ ConvertIdle

\* migrate_command is entered with the options of the command line
MigrateCommand ==
    /\ pc = "idle"
    /\ runs < MaxRuns
    /\ \E app \in MigrateApps, dry_run \in BOOLEAN, interactive \in BOOLEAN,
          backup \in BOOLEAN :
         run' = [cmd |-> "migrate", app |-> app, dry_run |-> dry_run,
                 interactive |-> interactive, backup |-> backup,
                 app_found |-> FALSE, analysis_result |-> NoResult,
                 plan_answer |-> "not asked", executing |-> FALSE, config |-> NoResult,
                 backup_dir |-> <<>>, i |-> 1, written |-> {},
                 completion_reported |-> FALSE, outcome |-> "running",
                 before |-> [files |-> files, dirs |-> dirs]]
    /\ runs' = runs + 1
    /\ pc' = "app_exists"
    /\ UNCHANGED <<fsVars, genFrame>>

\* if not app_path.exists(): return
MigrateCheckApp ==
    /\ pc = "app_exists"
    /\ IF <<run.app>> \in dirs
       THEN /\ run' = [run EXCEPT !.app_found = TRUE]
            /\ pc' = "analyze_app"
       ELSE EndRun("app_not_found")
    /\ UNCHANGED <<fsVars, runs, genFrame>>

\* analysis_result = analyzer.analyze_app(), and the return when it holds
\* neither a serializer nor a viewset
MigrateAnalyzeApp ==
    /\ pc = "analyze_app"
    /\ LET analysis_result == AnalyzeAppResult(AppDirOf(files, run.app))
       IN  IF analysis_result.serializers = <<>> /\ analysis_result.viewsets = <<>>
           THEN /\ run' = [run EXCEPT !.analysis_result = analysis_result,
                                      !.outcome = "nothing_found"]
                /\ pc' = "idle"
           ELSE /\ run' = [run EXCEPT !.analysis_result = analysis_result]
                /\ pc' = "confirm_plan"
    /\ UNCHANGED <<fsVars, runs, genFrame>>

\* the plan confirmed and the migration executed whatever --dry-run says: not
\* the program
MigrateConfirmPlan_IgnoresDryRun ==
    /\ pc = "confirm_plan"
    /\ \E confirmed \in BOOLEAN :
         LET answer == IF ~ run.interactive THEN "not asked"
                       ELSE IF confirmed THEN "yes" ELSE "no"
         IN  IF answer = "no"
             THEN /\ run' = [run EXCEPT !.plan_answer = answer, !.outcome = "cancelled"]
                  /\ pc' = "idle"
             ELSE /\ run' = [run EXCEPT !.plan_answer = answer, !.executing = TRUE]
                  /\ pc' = "execute_migration"
    /\ UNCHANGED <<fsVars, runs, genFrame>>

\* the confirmation of the plan, asked when interactive, then the return of a
\* dry run
MigrateConfirmPlan ==
    /\ pc = "confirm_plan"
    /\ \E confirmed \in BOOLEAN :
         LET answer == IF ~ run.interactive THEN "not asked"
                       ELSE IF confirmed THEN "yes" ELSE "no"
         IN  IF answer = "no"
             THEN /\ run' = [run EXCEPT !.plan_answer = answer, !.outcome = "cancelled"]
                  /\ pc' = "idle"
             ELSE IF run.dry_run
             THEN /\ run' = [run EXCEPT !.plan_answer = answer, !.outcome = "dry_run"]
                  /\ pc' = "idle"
             ELSE /\ run' = [run EXCEPT !.plan_answer = answer, !.executing = TRUE]
                  /\ pc' = "execute_migration"
    /\ UNCHANGED <<fsVars, runs, genFrame>>

\* _execute_migration up to ninja_base_dir: _load_project_config as in the
\* generate command.  Without a configuration it returns, and migrate_command
\* goes on to its last two statements
MigrateLoadConfig ==
    /\ pc = "execute_migration"
    /\ LET config == LoadProjectConfig(files)
       IN  IF config = NoResult
           THEN /\ run' = [run EXCEPT !.completion_reported = TRUE,
                                      !.outcome = "completed"]
                /\ pc' = "idle"
           ELSE IF ~ HasKey(config, "project", "django_app")
           THEN /\ run' = [run EXCEPT !.config = config, !.outcome = "KeyError"]
                /\ pc' = "idle"
           ELSE /\ run' = [run EXCEPT !.config = config]
                /\ pc' = "create_backup"
    /\ UNCHANGED <<fsVars, runs, genFrame>>

\* the readings of the clock not earlier than the backups that are there
Now(ds) ==
    { t \in 1..Len(Timestamps) :
        \A u \in 1..Len(Timestamps) : BackupDir(Timestamps[u]) \in ds => u <= t }

\* if backup: _create_backup(project_dir, app_name).  copytree raises
\* FileExistsError when its destination is there
MigrateCreateBackup ==
    /\ pc = "create_backup"
    /\ IF run.backup
       THEN \E t \in Now(dirs) :
              IF BackupDir(Timestamps[t]) \o <<run.app>> \in dirs
              THEN /\ EndRun("FileExistsError")
                   /\ UNCHANGED fsVars
              ELSE LET copied == CreateBackup(files, dirs, run.app, Timestamps[t])
                   IN  /\ files' = copied[1]
                       /\ dirs' = copied[2]
                       /\ run' = [run EXCEPT !.backup_dir = BackupDir(Timestamps[t])]
                       /\ pc' = "serializers"
       ELSE /\ pc' = "serializers"
            /\ UNCHANGED <<run, fsVars>>
    /\ UNCHANGED <<runs, genFrame>>

\* one pass of a conversion loop for the class at run.i: the feature directory
\* is made and write_file called; TypeError comes out of f.write(None)
MigrateWrite(info, file_name, content, registers) ==
    LET feature_name == ExtractFeatureName(info.class_name)
        feature_dir == FeatureDir(run.config["project"]["django_app"], feature_name)
        path == Append(feature_dir, file_name)
        made == MkdirParents(dirs, feature_dir)
        wrote == WriteFile(files, made, path, content)
    IN  IF content = NoResult
        THEN /\ files' = wrote[1]
             /\ dirs' = wrote[2]
             /\ run' = [run EXCEPT !.written = @ \cup {path}, !.outcome = "TypeError"]
             /\ pc' = "idle"
        ELSE /\ files' = IF registers
                         THEN MigrateUpdateMainApiFile(wrote[1], feature_name, run.config)
                         ELSE wrote[1]
             /\ dirs' = wrote[2]
             /\ run' = [run EXCEPT !.written = @ \cup {path}, !.i = @ + 1]
             /\ pc' = pc

\* for i, serializer in enumerate(analysis_result["serializers"])
MigrateSerializer ==
    /\ pc = "serializers"
    /\ IF run.i > Len(run.analysis_result.serializers)
       THEN /\ run' = [run EXCEPT !.i = 1]
            /\ pc' = "viewsets"
            /\ UNCHANGED fsVars
       ELSE LET serializer == run.analysis_result.serializers[run.i]
            IN  MigrateWrite(serializer, <<"schema", ".py">>,
                             ConvertSerializerToSchema(serializer, run.config), FALSE)
    /\ UNCHANGED <<runs, genFrame>>

\* for i, viewset in enumerate(analysis_result["viewsets"]), the return of
\* _execute_migration and the last two statements of migrate_command
MigrateViewset ==
    /\ pc = "viewsets"
    /\ IF run.i > Len(run.analysis_result.viewsets)
       THEN /\ run' = [run EXCEPT !.completion_reported = TRUE, !.outcome = "completed"]
            /\ pc' = "idle"
            /\ UNCHANGED fsVars
       ELSE LET viewset == run.analysis_result.viewsets[run.i]
            IN  MigrateWrite(viewset, <<"views", ".py">>,
                             ConvertViewsetToViews(viewset, run.config), TRUE)
    /\ UNCHANGED <<runs, genFrame>>

NextMigrate ==
    \/ MigrateCommand
    \/ MigrateCheckApp
    \/ MigrateAnalyzeApp
    \/ MigrateConfirmPlan
    \/ MigrateLoadConfig
    \/ MigrateCreateBackup
    \/ MigrateSerializer
    \/ MigrateViewset

SpecMigrate == InitMigrate /\ [][NextMigrate]_vars


-----------------------------------------------------------------------------
(* Claims about the migrate command *)

MigrateChangedFiles ==
    /\ run.cmd = "migrate"
    /\ (files # run.before.files \/ dirs # run.before.dirs)

AnalysisFound ==
    /\ run.analysis_result # NoResult
    /\ (run.analysis_result.serializers # <<>> \/ run.analysis_result.viewsets # <<>>)

\* C15 as stated: a migrate run changes the file system only if the
\* application directory exists, the analysis found a serializer or a viewset,
\* the user confirmed the plan and --dry-run is not set
C15_Original_ChangesOnlyWhenConfirmed ==
    MigrateChangedFiles =>
        /\ run.app_found
        /\ AnalysisFound
        /\ run.plan_answer = "yes"
        /\ ~ run.dry_run

\* C15: a migrate run changes the file system only if the application
\* directory exists, the analysis found a serializer or a viewset, the user
\* confirmed the plan when the run is interactive (a run that is not
\* interactive asks nothing), and --dry-run is not set; a --dry-run run
\* changes nothing
C15_ChangesOnlyWhenNotDeclined ==
    /\ MigrateChangedFiles =>
          /\ run.app_found
          /\ AnalysisFound
          /\ (run.interactive => run.plan_answer = "yes")
          /\ ~ run.dry_run
    /\ (run.cmd = "migrate" /\ run.dry_run) =>
          files = run.before.files /\ dirs = run.before.dirs

\* an interactive run whose plan was confirmed has made the backup, and a dry
\* run has ended after showing the plan
C15_Witness ==
    /\ MigrateChangedFiles
    /\ run.interactive
    /\ run.plan_answer = "yes"
    /\ run.backup_dir # <<>>

C15_WitnessDryRun ==
    /\ run.cmd = "migrate"
    /\ run.outcome = "dry_run"
    /\ run.plan_answer = "yes"


\* a run that entered _execute_migration with a configuration naming the
\* django_app, and has ended
ExecutedWithConfig ==
    /\ run.cmd = "migrate"
    /\ pc = "idle"
    /\ run.executing
    /\ run.config # NoResult
    /\ HasKey(run.config, "project", "django_app")

MigratedPath(info, file_name) ==
    Append(FeatureDir(run.config["project"]["django_app"],
                      ExtractFeatureName(info.class_name)), file_name)

\* C16: a migrate run that is not a dry run and has a project configuration
\* writes, for every serializer found, schema.py holding the converted schema
\* text and, for every viewset found, views.py holding the converted views
\* text, and ends normally with the completion message
C16_MigrationConvertsAndCompletes ==
    ExecutedWithConfig =>
        /\ run.outcome = "completed"
        /\ run.completion_reported
        /\ \A i \in 1..Len(run.analysis_result.serializers) :
             LET serializer == run.analysis_result.serializers[i]
                 schema_path == MigratedPath(serializer, <<"schema", ".py">>)
             IN  /\ schema_path \in DOMAIN files
                 /\ files[schema_path] = ConvertSerializerToSchema(serializer, run.config)
        /\ \A i \in 1..Len(run.analysis_result.viewsets) :
             LET viewset == run.analysis_result.viewsets[i]
                 views_path == MigratedPath(viewset, <<"views", ".py">>)
             IN  /\ views_path \in DOMAIN files
                 /\ files[views_path] = ConvertViewsetToViews(viewset, run.config)


\* the files of the application directory as they were when the run started
AppFilesBefore == { p \in DOMAIN run.before.files : Below(p, <<run.app>>) }

\* C17: in a migrate run with backup enabled that has written a schema.py, a
\* views.py or api.py, the copy of the application directory is there under
\* backup_drf_migration_<timestamp>/<app> and holds every file of the
\* application directory with the content it had before the run
C17_BackupPrecedesWrites ==
    (run.cmd = "migrate" /\ run.backup /\ run.written # {}) =>
        /\ run.backup_dir # <<>>
        /\ \A p \in AppFilesBefore :
             /\ run.backup_dir \o p \in DOMAIN files
             /\ files[run.backup_dir \o p] = run.before.files[p]

\* a run with backup that emptied a schema.py written by hand, of which the
\* backup holds the text
C17_Witness ==
    /\ run.cmd = "migrate"
    /\ run.backup
    /\ UsersSchemaPath \in run.written
    /\ files[UsersSchemaPath] = EmptyText
    /\ UsersSchemaPath \in DOMAIN run.before.files
    /\ run.before.files[UsersSchemaPath] = HandWritten("schema")
    /\ files[run.backup_dir \o UsersSchemaPath] = HandWritten("schema")


\* whether the run converted what it analysed: _execute_migration got past
\* the configuration and both loops
MigrationCarriedOut ==
    /\ run.config # NoResult
    /\ run.outcome = "completed"

\* C18: the completion message and the summary are printed only in runs where
\* the migration was carried out; a run in which _execute_migration stops for
\* want of the project configuration does not report completion
C18_CompletionOnlyAfterMigration ==
    (run.cmd = "migrate" /\ run.completion_reported) => MigrationCarriedOut


-----------------------------------------------------------------------------
(* FileManager on the characters of one file: write_file, append_to_file,   *)
(* read_file and file_exists.  A string is a sequence of characters, a file *)
(* holds the characters the text layer of open() put on the disk.           *)

LF == "\n"
CR == "\r"
\* a lone surrogate: a character of str that UTF-8 cannot encode
Surrogate == "\\udc80"

MaxFileCalls == 3

\* os.linesep of the platforms
LineSeps == { <<LF>>, <<CR, LF>> }

\* what f.write(content) puts on the disk in text mode: each "\n" becomes
\* os.linesep
RECURSIVE WriteTranslate(_, _)
WriteTranslate(content, linesep) ==
    IF content = <<>> THEN <<>>
    ELSE (IF Head(content) = LF THEN linesep ELSE <<Head(content)>>)
         \o WriteTranslate(Tail(content), linesep)

\* what f.read() gives in text mode: "\r\n" and "\r" become "\n"
RECURSIVE ReadTranslate(_)
ReadTranslate(chars) ==
    IF chars = <<>> THEN <<>>
    ELSE IF Head(chars) = CR
    THEN <<LF>> \o ReadTranslate(IF Len(chars) > 1 /\ chars[2] = LF
                                 THEN Tail(Tail(chars)) ELSE Tail(chars))
    ELSE <<Head(chars)>> \o ReadTranslate(Tail(chars))

\* whether the utf-8 encoder takes the string
Encodable(content) == \A i \in 1..Len(content) : content[i] # Surrogate

OnDisk(chars) == [kind |-> "chars", chars |-> chars]

\* write_file keeping what the file held: not the program
WriteChars_Keeps(fs, ds, file_path, content, linesep) ==
    << [q \in DOMAIN fs \cup {file_path} |->
          IF q = file_path
          THEN OnDisk((IF file_path \in DOMAIN fs THEN fs[file_path].chars ELSE <<>>)
                      \o (IF Encodable(content) THEN WriteTranslate(content, linesep)
                          ELSE <<>>))
          ELSE fs[q]],
       MkdirParents(ds, Parent(file_path)) >>

\* FileManager.write_file on characters: the tree after it as <<files, dirs>>.
\* open(file_path, 'w') empties the file before the encoder sees the string
WriteChars(fs, ds, file_path, content, linesep) ==
    << [q \in DOMAIN fs \cup {file_path} |->
          IF q = file_path
          THEN OnDisk(IF Encodable(content) THEN WriteTranslate(content, linesep)
                      ELSE <<>>)
          ELSE fs[q]],
       MkdirParents(ds, Parent(file_path)) >>

\* FileManager.append_to_file on characters
AppendChars(fs, ds, file_path, content, linesep) ==
    << [q \in DOMAIN fs \cup {file_path} |->
          IF q = file_path
          THEN OnDisk((IF file_path \in DOMAIN fs THEN fs[file_path].chars ELSE <<>>)
                      \o (IF Encodable(content) THEN WriteTranslate(content, linesep)
                          ELSE <<>>))
          ELSE fs[q]],
       MkdirParents(ds, Parent(file_path)) >>

\* FileManager.read_file
ReadFile(fs, file_path) == ReadTranslate(fs[file_path].chars)

\* FileManager.file_exists
FileExists(fs, ds, file_path) == file_path \in DOMAIN fs \/ file_path \in ds

\* the strings handed to write_file and append_to_file
FileStrings ==
    { <<>>, <<"a">>, <<"a", LF>>, <<LF, "b">>, <<"a", CR>>, <<CR, LF, "b">>, <<Surrogate>> }

\* the file the calls are made on
ReportPath == << <<"out">>, <<"reports">>, <<"summary", ".txt">> >>

\* no call made yet, on a platform with the given os.linesep
NoCall(linesep) ==
    [cmd |-> "none", linesep |-> linesep, written |-> FALSE, expected |-> <<>>,
     plain |-> FALSE, raised |-> FALSE]

\* the file is missing with or without its directories, or holds a line
InitFileManager ==
    /\ files \in { TreeOf(<< <<ReportPath, NoFile>> >>),
                   TreeOf(<< <<ReportPath, OnDisk(<<"o", "l", "d">>)>> >>) }
    /\ dirs \in { DirsOf(files), {}, {Parent(Parent(ReportPath))} }
    /\ DirsOf(files) \subseteq dirs
    /\ run \in { NoCall(linesep) : linesep \in LineSeps }
    /\ runs = 0
    /\ pc = "idle"
    /\ ParseIdle /\ FindIdle /\ DrfIdle /\ ActionsIdle /\ ConvertIdle

\* whether a string has no carriage return and can be encoded
Plain(content) == Encodable(content) /\ \A i \in 1..Len(content) : content[i] # CR

\* file_manager.write_file(ReportPath, content)
WriteFileCall ==
    /\ pc = "idle"
    /\ runs < MaxFileCalls
    /\ \E content \in FileStrings :
         LET wrote == WriteChars(files, dirs, ReportPath, content, run.linesep)
         IN  /\ files' = wrote[1]
             /\ dirs' = wrote[2]
             /\ run' = [cmd |-> "write_file", linesep |-> run.linesep, written |-> TRUE,
                        expected |-> content, plain |-> Plain(content),
                        raised |-> ~ Encodable(content)]
    /\ runs' = runs + 1
    /\ UNCHANGED <<pc, genFrame>>

\* file_manager.append_to_file(ReportPath, content)
AppendToFileCall ==
    /\ pc = "idle"
    /\ runs < MaxFileCalls
    /\ \E content \in FileStrings :
         LET wrote == AppendChars(files, dirs, ReportPath, content, run.linesep)
         IN  /\ files' = wrote[1]
             /\ dirs' = wrote[2]
             /\ run' = [cmd |-> "append_to_file", linesep |-> run.linesep,
                        written |-> run.written,
                        expected |-> run.expected \o content,
                        plain |-> run.plain /\ Plain(content),
                        raised |-> ~ Encodable(content)]
    /\ runs' = runs + 1
    /\ UNCHANGED <<pc, genFrame>>

NextFileManager ==
    \/ WriteFileCall
    \/ AppendToFileCall

SpecFileManager == InitFileManager /\ [][NextFileManager]_vars

-----------------------------------------------------------------------------
(* FileManager.backup_file.  A file name is a sequence of pieces; a piece   *)
(* that begins with a dot is one of DotPieces, and no other piece holds a   *)
(* dot.                                                                     *)

DotPieces == { ".txt", ".bak", ".orig", ".env" }

\* PurePath.suffix: from the last dot of the name on, unless that dot is the
\* first character of the name
PathSuffix(name) ==
    IF Len(name) > 1 /\ name[Len(name)] \in DotPieces THEN <<name[Len(name)]>> ELSE <<>>

Raised(exception) == [kind |-> exception]
PathResult(path) == [kind |-> "path", path |-> path]

\* PurePath.with_suffix: ValueError for a suffix that does not begin with a
\* dot, otherwise the old suffix gives way to the new one
WithSuffix(file_path, suffix) ==
    LET name == file_path[Len(file_path)]
        old_suffix == PathSuffix(name)
        stem == SubSeq(name, 1, Len(name) - Len(old_suffix))
    IN  IF suffix # <<>> /\ suffix[1] \notin DotPieces
        THEN Raised("ValueError")
        ELSE PathResult(Append(Parent(file_path), stem \o suffix))

\* backup_path = file_path.with_suffix(file_path.suffix + backup_suffix)
BackupPath(file_path, backup_suffix) ==
    WithSuffix(file_path, PathSuffix(file_path[Len(file_path)]) \o backup_suffix)

\* FileManager.backup_file: what it returns or raises, and the files after it.
\* shutil.copy2 raises SameFileError when both paths are one file
BackupFile(fs, file_path, backup_suffix) ==
    LET backup_path == BackupPath(file_path, backup_suffix)
    IN  IF backup_path.kind # "path" THEN [result |-> backup_path, files |-> fs]
        ELSE IF file_path \notin DOMAIN fs THEN [result |-> backup_path, files |-> fs]
        ELSE IF backup_path.path = file_path
        THEN [result |-> Raised("SameFileError"), files |-> fs]
        ELSE [result |-> backup_path,
              files |-> [q \in DOMAIN fs \cup {backup_path.path} |->
                           IF q = backup_path.path THEN fs[file_path] ELSE fs[q]]]

NotesTxt == << <<"notes", ".txt">> >>
Makefile == << <<"Makefile">> >>
DotEnv == << <<".env">> >>
\* the paths backup_file is called with
BackupSources == { NotesTxt, Makefile, DotEnv }
\* the backup suffixes: the default, another extension and the tilde of editors
BackupSuffixes == { <<".bak">>, <<".orig">>, <<"~">> }

\* notes.txt and Makefile are there or not, with or without an older backup;
\* .env is not there
InitBackup ==
    /\ files \in { TreeOf(<< <<NotesTxt, n>>, <<Makefile, m>>,
                             << << <<"notes", ".txt", ".bak">> >>, nb>>,
                             << << <<"Makefile", ".bak">> >>, mb>> >>) :
                     n \in { NoFile, OnDisk(<<"v", "1">>), OnDisk(<<"v", "2">>) },
                     m \in { NoFile, OnDisk(<<"a", "l", "l">>) },
                     nb \in { NoFile, OnDisk(<<"v", "0">>) },
                     mb \in { NoFile, OnDisk(<<"o", "l", "d">>) } }
    /\ dirs = {}
    /\ run = NoRun
    /\ runs = 0
    /\ pc = "idle"
    /\ ParseIdle /\ FindIdle /\ DrfIdle /\ ActionsIdle /\ ConvertIdle

\* file_manager.backup_file(file_path, backup_suffix)
BackupFileCall ==
    /\ pc = "idle"
    /\ runs < MaxFileCalls
    /\ \E file_path \in BackupSources, backup_suffix \in BackupSuffixes :
         LET done == BackupFile(files, file_path, backup_suffix)
         IN  /\ files' = done.files
             /\ run' = [cmd |-> "backup_file", file_path |-> file_path,
                        backup_suffix |-> backup_suffix, result |-> done.result,
                        before |-> [files |-> files, dirs |-> dirs]]
    /\ runs' = runs + 1
    /\ UNCHANGED <<dirs, pc, genFrame>>

NextBackup == BackupFileCall

SpecBackup == InitBackup /\ [][NextBackup]_vars

\* the path with the backup suffix behind its name
Followed(file_path, backup_suffix) ==
    Append(Parent(file_path), file_path[Len(file_path)] \o backup_suffix)

\* C21: backup_file(p) returns p followed by the backup suffix and leaves p
\* as it was; when p exists the returned path holds the content of p,
\* whatever backup was there; when p does not exist no file is created and
\* the returned path is left as it was
C21_BackupFileCopiesAside ==
    run.cmd = "backup_file" =>
        LET p == run.file_path
            backup == Followed(p, run.backup_suffix)
        IN  /\ run.result = PathResult(backup)
            /\ (p \in DOMAIN run.before.files =>
                  /\ p \in DOMAIN files
                  /\ files[p] = run.before.files[p]
                  /\ backup \in DOMAIN files
                  /\ files[backup] = run.before.files[p])
            /\ (p \notin DOMAIN run.before.files => files = run.before.files)

\* the same for calls with the default suffix only
BackupFileDefaultSuffix ==
    (run.cmd = "backup_file" /\ run.backup_suffix = <<".bak">>) =>
        LET p == run.file_path
            backup == Followed(p, run.backup_suffix)
        IN  /\ run.result = PathResult(backup)
            /\ (p \in DOMAIN run.before.files =>
                  /\ files[p] = run.before.files[p]
                  /\ files[backup] = run.before.files[p])
            /\ (p \notin DOMAIN run.before.files => files = run.before.files)


-----------------------------------------------------------------------------
(* The three commands run one after another in one project *)

\* an initialised project whose application blog has a model Article and DRF
\* code, and whose api.py has no router registered
InitProject ==
    /\ project = << CHOOSE e \in GenEntries : e.apps_py >>
    /\ files \in { MigrateTree(FullConfig, FreshApi,
                               SourceFile(<<"serializers.py">>, <<UserSerializer>>),
                               NoFile, NoFile),
                   MigrateTree(FullConfig, FreshApi, NoFile,
                               SourceFile(<<"views.py">>, <<UserViewSet>>), NoFile) }
    /\ dirs = DirsOf(files)
    /\ run = NoRun
    /\ runs = 0
    /\ pc = "idle"
    /\ model_name = Unused /\ analyze_result = Unused
    /\ ParseIdle /\ DrfIdle /\ ActionsIdle /\ ConvertIdle

NextProject ==
    \/ NextInit
    \/ NextGenerate
    \/ NextMigrate

SpecProject == InitProject /\ [][NextProject]_vars

\* api.py holds the import line and the api.add_router line of the feature
HoldsRouter(feature_name) ==
    /\ ApiFile(BlogApp) \in DOMAIN files
    /\ InContent(ImportLine(BlogApp, feature_name), Lines(files[ApiFile(BlogApp)]))
    /\ InContent(RouterLine(feature_name), Lines(files[ApiFile(BlogApp)]))

\* C22: once generate has registered the router of a feature in api.py, no
\* step of a later init, generate or migrate command takes the feature's
\* import line or api.add_router line out of api.py.  The api.py of
\* InitProject has no router, so that the lines of a feature are there only
\* from the end of the generate run that registered it
C22_RegistrationSurvivesCommands ==
    [][\A feature_name \in FeatureNames :
          HoldsRouter(feature_name) => HoldsRouter(feature_name)']_vars


\* the first line of a text that holds the pattern, 0 when none does
FirstLine(pattern, lines) ==
    IF InContent(pattern, lines)
    THEN CHOOSE i \in 1..Len(lines) :
           /\ Contains(lines[i], pattern)
           /\ \A j \in 1..(i - 1) : ~ Contains(lines[j], pattern)
    ELSE 0

\* C23: after generate's _update_main_api_file has run on an existing api.py,
\* whatever the file held, the import line of the feature's router stands on
\* an earlier line than the api.add_router line that uses it
C23_ImportBeforeRouter ==
    (/\ run.cmd = "register"
     /\ run.impl = "generate"
     /\ ApiFile(BlogApp) \in DOMAIN run.before) =>
        /\ FirstLine(ImportLine(BlogApp, run.feature_name), ApiLines) > 0
        /\ FirstLine(ImportLine(BlogApp, run.feature_name), ApiLines)
             < FirstLine(RouterLine(run.feature_name), ApiLines)

=============================================================================
